---- MODULE Spec2Model ----
(***************************************************************************)
(* A model of the job service (Colstuwjx/job):                             *)
(*   - core.Controller            (src/unnamed/part_000)                   *)
(*   - runtime.Bootstrap/Register (src/runtime/bootstrap.go)               *)
(*   - impl.Context               (src/main.go, package impl)              *)
(*   - config.Configuration       (src/main.go, package config)            *)
(* Go strings whose content is inspected (trimmed, split, parsed) are      *)
(* sequences of one-character strings; strings that are only compared are  *)
(* TLA+ strings.                                                           *)
(***************************************************************************)
EXTENDS Integers, Sequences, FiniteSets, TLC

VARIABLES
    \* ---- core.Controller and the pool behind it
    ctlOp,      \* the controller operation that ran last ("none" at start)
    ctlReq,     \* its argument (a JobRequest or a job ID)
    ctlCalls,   \* the calls it made on the pool / file system, in order
    ctlRet,     \* what it returned
    ctlEnv,     \* the answers the pool / file system gave to those calls
    poolEnq,    \* pool: number of jobs enqueued so far
    poolHooks   \* pool: the IDs of the jobs with a registered status hook

VARIABLES
    \* ---- package runtime: Register, Bootstrap.LoadAndRun
    registerJobs, \* the registry: job name -> job
    regCount,     \* number of Register calls made
    regLast,      \* the arguments of the last Register call
    mainPc,       \* where the main goroutine stands
    started,      \* the components LoadAndRun has created / started
    exitKind,     \* "none" while the process runs, else how it ended
    exitErr,      \* what a panic / fatal exit reported
    ctxCancelled, \* rootContext.SystemContext is cancelled
    wg,           \* rootContext.WG: the counter of the root wait group
    errorChan,    \* rootContext.ErrorChan
    firstPushed,  \* the first error ever sent on rootContext.ErrorChan
    sig,          \* the channel of os signals
    trigger,      \* the case the select took: "signal" or "error"
    mainErr,      \* LoadAndRun's local variable err
    close,        \* the channel "close" of the second Stop
    timerPc,      \* where the timer goroutine stands
    timerFired,   \* the 10 s timer has expired
    apiStops      \* number of apiServer.Stop() calls

VARIABLES
    \* ---- package impl: Context
    tplCtx,     \* the template context (impl.NewContext)
    jobCtxs,    \* the contexts Build has returned, in order
    ctxLast     \* the last operation on a context and its outcome

VARIABLES
    \* ---- package config: Configuration
    cfg,        \* the Configuration struct (config.DefaultConfig)
    cfgFile,    \* the YAML file Load was last given
    cfgEnv,     \* the environment variables of the process
    cfgRet,     \* the error Load returned last
    cfgLoads    \* the number of Load calls made

ctlVars == <<ctlOp, ctlReq, ctlCalls, ctlRet, ctlEnv, poolEnq, poolHooks>>

ctxVars == <<tplCtx, jobCtxs, ctxLast>>

cfgVars == <<cfg, cfgFile, cfgEnv, cfgRet, cfgLoads>>

bootVars == <<registerJobs, regCount, regLast, mainPc, started, exitKind, exitErr,
              ctxCancelled, wg, errorChan, firstPushed, sig, trigger, mainErr, close,
              timerPc, timerFired, apiStops>>

vars == <<ctlVars, bootVars, ctxVars, cfgVars>>

(***************************************************************************)
(* Bounds                                                                  *)
(***************************************************************************)
MaxJobs == 2

(***************************************************************************)
(* Strings                                                                 *)
(***************************************************************************)
\* A nil pointer / nil interface value. Pointers are records with an isNil field.
Nil == [isNil |-> TRUE]
IsNil(p) == p.isNil
NoErr == "ok"

EmptyS == << >>
BlankS == <<" ">>

RECURSIVE TrimLeft(_)
TrimLeft(s) ==
    IF s = << >> THEN s
    ELSE IF Head(s) = " " THEN TrimLeft(Tail(s)) ELSE s

RECURSIVE TrimRight(_)
TrimRight(s) ==
    IF s = << >> THEN s
    ELSE IF s[Len(s)] = " " THEN TrimRight(SubSeq(s, 1, Len(s) - 1)) ELSE s

\* strings.TrimSpace
TrimSpace(s) == TrimRight(TrimLeft(s))

\* utils.IsEmptyStr: len(strings.TrimSpace(str)) == 0
IsEmptyStr(s) == Len(TrimSpace(s)) = 0

\* strings.HasPrefix
HasPrefix(s, p) == Len(s) >= Len(p) /\ SubSeq(s, 1, Len(p)) = p

\* strings.Fields: the maximal runs of non-space characters
RECURSIVE FieldsAcc(_, _, _)
FieldsAcc(s, cur, acc) ==
    IF s = << >> THEN (IF cur = << >> THEN acc ELSE Append(acc, cur))
    ELSE IF Head(s) = " "
         THEN FieldsAcc(Tail(s), << >>, IF cur = << >> THEN acc ELSE Append(acc, cur))
         ELSE FieldsAcc(Tail(s), Append(cur, Head(s)), acc)

Fields(s) == FieldsAcc(s, << >>, << >>)

(***************************************************************************)
(* robfig/cron Parse as called by validJobReq: an optional seconds-first   *)
(* grammar of 5 or 6 whitespace-separated fields, or an "@" descriptor.    *)
(* Fields here are "*", "?", a digit, or "*" "/" digit.                    *)
(***************************************************************************)
CronDigits == {"0", "1", "5"}

CronFieldOK(f) ==
    \/ f = <<"*">>
    \/ f = <<"?">>
    \/ Len(f) = 1 /\ f[1] \in CronDigits
    \/ Len(f) = 3 /\ f[1] = "*" /\ f[2] = "/" /\ f[3] \in (CronDigits \ {"0"})

CronHourly == <<"@", "h", "o", "u", "r", "l", "y">>

CronDescriptors == {CronHourly}

cronParse(spec) ==
    IF Len(spec) = 0 THEN "Empty spec string"
    ELSE IF Head(spec) = "@"
         THEN (IF spec \in CronDescriptors THEN NoErr ELSE "Unrecognized descriptor")
         ELSE LET fields == Fields(spec) IN
              IF Len(fields) < 5 \/ Len(fields) > 6 THEN "Bad field count"
              ELSE IF \A i \in 1..Len(fields) : CronFieldOK(fields[i])
                   THEN NoErr ELSE "Bad field"

(***************************************************************************)
(* Job kinds and the request model (models.JobRequest)                     *)
(***************************************************************************)
JobKindGeneric == "Generic"
JobKindScheduled == "Scheduled"
JobKindPeriodic == "Periodic"

hookActivated == "activated"
hookDeactivated == "error"

\* The errors of the controller, one tag per return statement
ErrEmptyRequest == "empty job request is not allowed"
ErrNameMissing == "name of job must be specified"
ErrMetadataMissing == "metadata of job is missing"
ErrKindUnsupported == "job kind is not supported"
ErrDelayMissing == "'schedule_delay' must be specified"
ErrCronMissing == "'cron_spec' must be specified"
ErrCronInvalid == "'cron_spec' is not correctly set"
ErrUnknownJob == "job is unknown"
ErrEmptyJobID == "empty job ID"
ErrNoObjectFound == "object is not found"

\* models.JobStats{}: the Stats pointer is nil
EmptyStats == [Stats |-> Nil]

Demo == <<"D", "E", "M", "O">>
DemoPrefix == <<"d", "e", "m", "o">>

\* The jobs the pool knows: main registers impl.KnownJobDemo only
KnownJobs == {Demo}

\* validJobReq with the name checked after the metadata and the kind
validJobReqNameLast(req) ==
    IF IsNil(req.Job) THEN ErrEmptyRequest
    ELSE IF IsNil(req.Job.Metadata) THEN ErrMetadataMissing
    ELSE IF /\ req.Job.Metadata.JobKind # JobKindGeneric
            /\ req.Job.Metadata.JobKind # JobKindPeriodic
            /\ req.Job.Metadata.JobKind # JobKindScheduled
         THEN ErrKindUnsupported
    ELSE IF IsEmptyStr(req.Job.Name) THEN ErrNameMissing
    ELSE IF /\ req.Job.Metadata.JobKind = JobKindScheduled
            /\ req.Job.Metadata.ScheduleDelay = 0
         THEN ErrDelayMissing
    ELSE IF req.Job.Metadata.JobKind = JobKindPeriodic
         THEN IF IsEmptyStr(req.Job.Metadata.Cron) THEN ErrCronMissing
              ELSE IF cronParse(req.Job.Metadata.Cron) # NoErr THEN ErrCronInvalid
              ELSE NoErr
    ELSE NoErr

\* validJobReq without the check of schedule_delay
validJobReqNoDelayCheck(req) ==
    IF IsNil(req.Job) THEN ErrEmptyRequest
    ELSE IF IsEmptyStr(req.Job.Name) THEN ErrNameMissing
    ELSE IF IsNil(req.Job.Metadata) THEN ErrMetadataMissing
    ELSE IF /\ req.Job.Metadata.JobKind # JobKindGeneric
            /\ req.Job.Metadata.JobKind # JobKindPeriodic
            /\ req.Job.Metadata.JobKind # JobKindScheduled
         THEN ErrKindUnsupported
    ELSE IF req.Job.Metadata.JobKind = JobKindPeriodic
         THEN IF IsEmptyStr(req.Job.Metadata.Cron) THEN ErrCronMissing
              ELSE IF cronParse(req.Job.Metadata.Cron) # NoErr THEN ErrCronInvalid
              ELSE NoErr
    ELSE NoErr

\* validJobReq
validJobReq(req) ==
    IF IsNil(req.Job) THEN ErrEmptyRequest
    ELSE IF IsEmptyStr(req.Job.Name) THEN ErrNameMissing
    ELSE IF IsNil(req.Job.Metadata) THEN ErrMetadataMissing
    ELSE IF /\ req.Job.Metadata.JobKind # JobKindGeneric
            /\ req.Job.Metadata.JobKind # JobKindPeriodic
            /\ req.Job.Metadata.JobKind # JobKindScheduled
         THEN ErrKindUnsupported
    ELSE IF /\ req.Job.Metadata.JobKind = JobKindScheduled
            /\ req.Job.Metadata.ScheduleDelay = 0
         THEN ErrDelayMissing
    ELSE IF req.Job.Metadata.JobKind = JobKindPeriodic
         THEN IF IsEmptyStr(req.Job.Metadata.Cron) THEN ErrCronMissing
              ELSE IF cronParse(req.Job.Metadata.Cron) # NoErr THEN ErrCronInvalid
              ELSE NoErr
    ELSE NoErr

(***************************************************************************)
(* The pool behind the controller (pool.Interface). The answers of the     *)
(* backend (failures) are inputs of the actions.                           *)
(***************************************************************************)
\* DemoJob.Validate
DemoJobValidate(params) ==
    IF DOMAIN params = {} THEN "parameters required for replication job"
    ELSE IF "image" \notin DOMAIN params THEN "missing parameter 'image'"
    ELSE IF ~HasPrefix(params["image"], DemoPrefix) THEN "expected 'demo steven'"
    ELSE NoErr

\* pool.IsKnownJob: (job type, known)
PoolIsKnownJob(name) ==
    IF name \in KnownJobs THEN <<name, TRUE>> ELSE <<EmptyS, FALSE>>

\* pool.ValidateJobParameters: the registered job's Validate
PoolValidateJobParameters(jobType, params) == DemoJobValidate(params)

\* The ID the pool gives its n-th job
JobIDOf(n) == <<"j", ToString(n)>>

Call(op, args) == [op |-> op, args |-> args]

\* What Enqueue / Schedule / PeriodicallyEnqueue return: the stats of the new
\* job on success, models.JobStats{} and the error otherwise
PoolEnqueueResult(call, id, err) ==
    IF err # NoErr THEN [res |-> EmptyStats, err |-> err]
    ELSE [res |-> [Stats |-> [isNil |-> FALSE,
                              JobID |-> id,
                              JobName |-> call.args[1],
                              JobKind |-> (CASE call.op = "Schedule" -> JobKindScheduled
                                             [] call.op = "PeriodicallyEnqueue" -> JobKindPeriodic
                                             [] OTHER -> JobKindGeneric),
                              HookStatus |-> ""]],
          err |-> NoErr]

\* The switch without its Scheduled case
DispatchNoSchedule(req) ==
    CASE req.Job.Metadata.JobKind = JobKindPeriodic ->
             Call("PeriodicallyEnqueue", <<req.Job.Name, req.Job.Parameters,
                                           req.Job.Metadata.Cron>>)
      [] OTHER ->
             Call("Enqueue", <<req.Job.Name, req.Job.Parameters, req.Job.Metadata.IsUnique>>)

\* LaunchJob, "Enqueue job regarding of the kind": the pool call it makes
Dispatch(req) ==
    CASE req.Job.Metadata.JobKind = JobKindScheduled ->
             Call("Schedule", <<req.Job.Name, req.Job.Parameters,
                                req.Job.Metadata.ScheduleDelay, req.Job.Metadata.IsUnique>>)
      [] req.Job.Metadata.JobKind = JobKindPeriodic ->
             Call("PeriodicallyEnqueue", <<req.Job.Name, req.Job.Parameters,
                                           req.Job.Metadata.Cron>>)
      [] OTHER ->
             Call("Enqueue", <<req.Job.Name, req.Job.Parameters, req.Job.Metadata.IsUnique>>)

\* The hook step returning RegisterHook's error to the caller
RegisterStatusHookFailing(req, res, err, hookErr) ==
    IF err = NoErr
    THEN IF ~IsEmptyStr(req.Job.StatusHook)
         THEN [calls |-> <<Call("RegisterHook", <<res.Stats.JobID, req.Job.StatusHook>>)>>,
               res |-> [res EXCEPT !.Stats.HookStatus =
                            IF hookErr # NoErr THEN hookDeactivated ELSE hookActivated],
               err |-> hookErr]
         ELSE [calls |-> << >>, res |-> res, err |-> err]
    ELSE [calls |-> << >>, res |-> res, err |-> err]

\* LaunchJob, "Register status hook?": the calls made and the result returned,
\* given the enqueue's result and the answer RegisterHook would give
RegisterStatusHook(req, res, err, hookErr) ==
    IF err = NoErr
    THEN IF ~IsEmptyStr(req.Job.StatusHook)
         THEN [calls |-> <<Call("RegisterHook", <<res.Stats.JobID, req.Job.StatusHook>>)>>,
               res |-> [res EXCEPT !.Stats.HookStatus =
                            IF hookErr # NoErr THEN hookDeactivated ELSE hookActivated],
               err |-> err]
         ELSE [calls |-> << >>, res |-> res, err |-> err]
    ELSE [calls |-> << >>, res |-> res, err |-> err]

\* LaunchJob that enqueues before it asks for the validation of the parameters
LaunchJobEnqueueFirst(req, id, enqErr, hookErr) ==
    LET v == validJobReq(req) IN
    IF v # NoErr THEN [calls |-> << >>, res |-> EmptyStats, err |-> v]
    ELSE
    LET known == PoolIsKnownJob(req.Job.Name)
        c1 == <<Call("IsKnownJob", <<req.Job.Name>>)>>
    IN
    IF ~known[2] THEN [calls |-> c1, res |-> EmptyStats, err |-> ErrUnknownJob]
    ELSE
    LET call == Dispatch(req)
        c2 == Append(c1, call)
        pv == PoolValidateJobParameters(known[1], req.Job.Parameters)
        c3 == Append(c2, Call("ValidateJobParameters", <<known[1], req.Job.Parameters>>))
        enq == PoolEnqueueResult(call, id, enqErr)
        hook == RegisterStatusHook(req, enq.res, enq.err, hookErr)
    IN
    IF pv # NoErr THEN [calls |-> c3, res |-> EmptyStats, err |-> pv]
    ELSE [calls |-> c3 \o hook.calls, res |-> hook.res, err |-> hook.err]

\* Controller.LaunchJob: the calls made on the pool, in order, and the
\* (stats, error) returned. id is the ID the pool gives the next job, enqErr
\* and hookErr the backend's answers to the enqueue and to RegisterHook.
LaunchJob(req, id, enqErr, hookErr) ==
    LET v == validJobReq(req) IN
    IF v # NoErr THEN [calls |-> << >>, res |-> EmptyStats, err |-> v]
    ELSE
    LET known == PoolIsKnownJob(req.Job.Name)
        c1 == <<Call("IsKnownJob", <<req.Job.Name>>)>>
    IN
    IF ~known[2] THEN [calls |-> c1, res |-> EmptyStats, err |-> ErrUnknownJob]
    ELSE
    LET pv == PoolValidateJobParameters(known[1], req.Job.Parameters)
        c2 == Append(c1, Call("ValidateJobParameters", <<known[1], req.Job.Parameters>>))
    IN
    IF pv # NoErr THEN [calls |-> c2, res |-> EmptyStats, err |-> pv]
    ELSE
    LET call == Dispatch(req)
        enq == PoolEnqueueResult(call, id, enqErr)
        hook == RegisterStatusHook(req, enq.res, enq.err, hookErr)
    IN  [calls |-> Append(c2, call) \o hook.calls, res |-> hook.res, err |-> hook.err]

\* Controller.GetJob; answer is what pool.GetJobStats would return
GetJob(jobID, answer) ==
    IF IsEmptyStr(jobID)
    THEN [calls |-> << >>, res |-> EmptyStats, err |-> ErrEmptyJobID]
    ELSE [calls |-> <<Call("GetJobStats", <<jobID>>)>>, res |-> answer.res, err |-> answer.err]

\* Controller.StopJob; answer is the error pool.StopJob would return
StopJob(jobID, answer) ==
    IF IsEmptyStr(jobID) THEN [calls |-> << >>, err |-> ErrEmptyJobID]
    ELSE [calls |-> <<Call("StopJob", <<jobID>>)>>, err |-> answer]

\* CancelJob testing the ID for the empty string only
CancelJobUntrimmed(jobID, answer) ==
    IF jobID = EmptyS THEN [calls |-> << >>, err |-> ErrEmptyJobID]
    ELSE [calls |-> <<Call("CancelJob", <<jobID>>)>>, err |-> answer]

\* Controller.CancelJob; answer is the error pool.CancelJob would return
CancelJob(jobID, answer) ==
    IF IsEmptyStr(jobID) THEN [calls |-> << >>, err |-> ErrEmptyJobID]
    ELSE [calls |-> <<Call("CancelJob", <<jobID>>)>>, err |-> answer]

\* Controller.RetryJob; answer is the error pool.RetryJob would return
RetryJob(jobID, answer) ==
    IF IsEmptyStr(jobID) THEN [calls |-> << >>, err |-> ErrEmptyJobID]
    ELSE [calls |-> <<Call("RetryJob", <<jobID>>)>>, err |-> answer]

\* config.GetLogBasePath() of the running service
LogBasePath == <<"/", "l">>

\* fmt.Sprintf("%s/%s.log", config.GetLogBasePath(), jobID)
LogPath(jobID) == LogBasePath \o <<"/">> \o jobID \o <<".", "l", "o", "g">>

\* Controller.GetJobLogData: the file system calls made and the result, given
\* whether the log file exists and what reading it gives (data, error)
GetJobLogData(jobID, exists, readAnswer) ==
    IF IsEmptyStr(jobID) THEN [calls |-> << >>, res |-> Nil, err |-> ErrEmptyJobID]
    ELSE IF ~exists
    THEN [calls |-> <<Call("FileExists", <<LogPath(jobID)>>)>>,
          res |-> Nil, err |-> ErrNoObjectFound]
    ELSE IF readAnswer.err # NoErr
    THEN [calls |-> <<Call("FileExists", <<LogPath(jobID)>>),
                      Call("ReadFile", <<LogPath(jobID)>>)>>,
          res |-> Nil, err |-> readAnswer.err]
    ELSE [calls |-> <<Call("FileExists", <<LogPath(jobID)>>),
                      Call("ReadFile", <<LogPath(jobID)>>)>>,
          res |-> readAnswer.res, err |-> NoErr]

\* Controller.CheckStatus; answer is what pool.Stats would return
CheckStatus(answer) ==
    [calls |-> <<Call("Stats", << >>)>>, res |-> answer.res, err |-> answer.err]

(***************************************************************************)
(* Inputs of the controller                                                *)
(***************************************************************************)
Names == {EmptyS, BlankS, Demo, <<"X">>}

NoParams == [k \in {} |-> EmptyS]

ParamSets == {NoParams,
              "image" :> <<"d", "e", "m", "o", "-", "x">>,
              "image" :> <<"i", "m", "g">>,
              "p1" :> <<"d", "e", "m", "o">>}

Hooks == {EmptyS, BlankS, <<"h">>}

Kinds == {JobKindGeneric, JobKindScheduled, JobKindPeriodic, ""}

Delays == {0, 5}

Crons == {EmptyS, BlankS,
          <<"*", " ", "*", " ", "*", " ", "*", " ", "*", " ", "*">>,
          <<"*", " ", "5", " ", "*", " ", "*", " ", "*">>,
          <<"*", " ", "*", " ", "*", " ", "*">>,
          <<"*", " ", "*", " ", "*", " ", "*", " ", "*", " ", "*", " ", "*">>,
          <<"*", "/", "1", " ", "*", " ", "*", " ", "*", " ", "*", " ", "*">>,
          <<"x", " ", "*", " ", "*", " ", "*", " ", "*", " ", "*">>,
          CronHourly,
          <<"@", "x">>}

Metadatas ==
    {Nil} \cup [isNil : {FALSE}, JobKind : Kinds, ScheduleDelay : Delays,
                Cron : Crons, IsUnique : BOOLEAN]

Jobs ==
    {Nil} \cup [isNil : {FALSE}, Name : Names, Parameters : ParamSets,
                StatusHook : Hooks, Metadata : Metadatas]

JobRequests == [Job : Jobs]

JobIDs == {EmptyS, BlankS, JobIDOf(1), <<"j", "9">>}

ErrBackend == "backend unavailable"
ErrJobAlreadyExists == "job already exists"
ErrNotFound == "not found"
ErrAlreadyTerminal == "already terminal"
ErrHook == "hook registration failed"
ErrRead == "read failed"

EnqueueAnswers == {NoErr, ErrBackend, ErrJobAlreadyExists}
HookAnswers == {NoErr, ErrHook}
JobOpAnswers == {NoErr, ErrNotFound, ErrAlreadyTerminal}

SomeStats(id) ==
    [Stats |-> [isNil |-> FALSE, JobID |-> id, JobName |-> Demo,
                JobKind |-> JobKindGeneric, HookStatus |-> ""]]

GetJobAnswers(id) == {[res |-> SomeStats(id), err |-> NoErr],
                      [res |-> EmptyStats, err |-> ErrNotFound]}

ReadAnswers == {[res |-> <<"l", "o", "g">>, err |-> NoErr],
                [res |-> EmptyS, err |-> ErrRead]}

StatsAnswers == {[res |-> <<"healthy">>, err |-> NoErr],
                 [res |-> << >>, err |-> ErrBackend]}

EnqueueOps == {"Enqueue", "Schedule", "PeriodicallyEnqueue"}

Unused == "unused"

\* The calls of a sequence whose operation is in ops
CallsOf(calls, ops) == SelectSeq(calls, LAMBDA c : c.op \in ops)

(***************************************************************************)
(* The controller's operations as actions: a request arrives while the     *)
(* controller is idle, is handled as a whole, and Respond hands the result *)
(* back.                                                                   *)
(***************************************************************************)
CtlIdle == ctlOp = "none"

LaunchJobCall ==
    /\ CtlIdle
    /\ poolEnq < MaxJobs
    /\ \E req \in JobRequests, enqErr \in EnqueueAnswers, hookErr \in HookAnswers :
         LET r == LaunchJob(req, JobIDOf(poolEnq + 1), enqErr, hookErr)
             enqueued == CallsOf(r.calls, EnqueueOps) # << >>
             hooked == CallsOf(r.calls, {"RegisterHook"}) # << >>
         IN  /\ ctlOp' = "LaunchJob"
             /\ ctlReq' = req
             /\ ctlCalls' = r.calls
             /\ ctlRet' = [res |-> r.res, err |-> r.err]
             /\ ctlEnv' = [enqErr |-> IF enqueued THEN enqErr ELSE Unused,
                           hookErr |-> IF hooked THEN hookErr ELSE Unused]
             /\ poolEnq' = IF enqueued /\ enqErr = NoErr THEN poolEnq + 1 ELSE poolEnq
             /\ poolHooks' = IF hooked /\ hookErr = NoErr
                             THEN poolHooks \cup {poolEnq + 1} ELSE poolHooks
             /\ UNCHANGED <<bootVars, ctxVars, cfgVars>>

GetJobCall ==
    /\ CtlIdle
    /\ \E jobID \in JobIDs : \E answer \in GetJobAnswers(jobID) :
         LET r == GetJob(jobID, answer) IN
         /\ ctlOp' = "GetJob"
         /\ ctlReq' = jobID
         /\ ctlCalls' = r.calls
         /\ ctlRet' = [res |-> r.res, err |-> r.err]
         /\ ctlEnv' = IF r.calls # << >> THEN answer
                       ELSE [res |-> EmptyStats, err |-> Unused]
         /\ UNCHANGED <<poolEnq, poolHooks, bootVars, ctxVars, cfgVars>>

StopJobCall ==
    /\ CtlIdle
    /\ \E jobID \in JobIDs, answer \in JobOpAnswers :
         LET r == StopJob(jobID, answer) IN
         /\ ctlOp' = "StopJob"
         /\ ctlReq' = jobID
         /\ ctlCalls' = r.calls
         /\ ctlRet' = [err |-> r.err]
         /\ ctlEnv' = IF r.calls # << >> THEN [err |-> answer] ELSE [err |-> Unused]
         /\ UNCHANGED <<poolEnq, poolHooks, bootVars, ctxVars, cfgVars>>

CancelJobCall ==
    /\ CtlIdle
    /\ \E jobID \in JobIDs, answer \in JobOpAnswers :
         LET r == CancelJob(jobID, answer) IN
         /\ ctlOp' = "CancelJob"
         /\ ctlReq' = jobID
         /\ ctlCalls' = r.calls
         /\ ctlRet' = [err |-> r.err]
         /\ ctlEnv' = IF r.calls # << >> THEN [err |-> answer] ELSE [err |-> Unused]
         /\ UNCHANGED <<poolEnq, poolHooks, bootVars, ctxVars, cfgVars>>

RetryJobCall ==
    /\ CtlIdle
    /\ \E jobID \in JobIDs, answer \in JobOpAnswers :
         LET r == RetryJob(jobID, answer) IN
         /\ ctlOp' = "RetryJob"
         /\ ctlReq' = jobID
         /\ ctlCalls' = r.calls
         /\ ctlRet' = [err |-> r.err]
         /\ ctlEnv' = IF r.calls # << >> THEN [err |-> answer] ELSE [err |-> Unused]
         /\ UNCHANGED <<poolEnq, poolHooks, bootVars, ctxVars, cfgVars>>

GetJobLogDataCall ==
    /\ CtlIdle
    /\ \E jobID \in JobIDs, exists \in BOOLEAN, readAnswer \in ReadAnswers :
         LET r == GetJobLogData(jobID, exists, readAnswer) IN
         /\ ctlOp' = "GetJobLogData"
         /\ ctlReq' = jobID
         /\ ctlCalls' = r.calls
         /\ ctlRet' = [res |-> r.res, err |-> r.err]
         /\ ctlEnv' = [exists |-> IF Len(r.calls) >= 1 THEN exists ELSE FALSE,
                       read |-> IF Len(r.calls) >= 2 THEN readAnswer.err ELSE Unused]
         /\ UNCHANGED <<poolEnq, poolHooks, bootVars, ctxVars, cfgVars>>

CheckStatusCall ==
    /\ CtlIdle
    /\ \E answer \in StatsAnswers :
         LET r == CheckStatus(answer) IN
         /\ ctlOp' = "CheckStatus"
         /\ ctlReq' = EmptyS
         /\ ctlCalls' = r.calls
         /\ ctlRet' = [res |-> r.res, err |-> r.err]
         /\ ctlEnv' = answer
         /\ UNCHANGED <<poolEnq, poolHooks, bootVars, ctxVars, cfgVars>>

\* The API handler has written the response: the controller is idle again
Respond ==
    /\ ~CtlIdle
    /\ ctlOp' = "none"
    /\ ctlReq' = EmptyS
    /\ ctlCalls' = << >>
    /\ ctlRet' = [err |-> NoErr]
    /\ ctlEnv' = Unused
    /\ UNCHANGED <<poolEnq, poolHooks, bootVars, ctxVars, cfgVars>>

CtlInit ==
    /\ ctlOp = "none"
    /\ ctlReq = EmptyS
    /\ ctlCalls = << >>
    /\ ctlRet = [err |-> NoErr]
    /\ ctlEnv = Unused
    /\ poolEnq = 0
    /\ poolHooks = {}

NextController ==
    \/ LaunchJobCall
    \/ GetJobCall
    \/ StopJobCall
    \/ CancelJobCall
    \/ RetryJobCall
    \/ GetJobLogDataCall
    \/ CheckStatusCall
    \/ Respond


(***************************************************************************)
(* Claims about the controller                                             *)
(***************************************************************************)
HasJob(req) == ~IsNil(req.Job)
HasMeta(req) == HasJob(req) /\ ~IsNil(req.Job.Metadata)

\* a string of spaces only (the empty string included)
Blank(s) == \A i \in 1..Len(s) : s[i] = " "

\* The six checks of a launch request, each stated on its own
Violates(req, k) ==
    CASE k = 1 -> ~HasJob(req) \/ Blank(req.Job.Name) \/ ~HasMeta(req)
      [] k = 2 -> HasMeta(req) /\ req.Job.Metadata.JobKind \notin
                      {JobKindGeneric, JobKindScheduled, JobKindPeriodic}
      [] k = 3 -> HasMeta(req) /\ req.Job.Metadata.JobKind = JobKindScheduled
                               /\ ~(req.Job.Metadata.ScheduleDelay > 0)
      [] k = 4 -> HasMeta(req) /\ req.Job.Metadata.JobKind = JobKindPeriodic
                               /\ (\/ Len(req.Job.Metadata.Cron) = 0
                                   \/ cronParse(req.Job.Metadata.Cron) # NoErr)
      [] k = 5 -> HasJob(req) /\ req.Job.Name \notin KnownJobs
      [] k = 6 -> HasJob(req) /\ DemoJobValidate(req.Job.Parameters) # NoErr

Violated(req) == {k \in 1..6 : Violates(req, k)}

FirstViolated(req) ==
    IF Violated(req) = {} THEN 0
    ELSE CHOOSE k \in Violated(req) : \A j \in Violated(req) : k <= j

ValidatorErrors == {"parameters required for replication job",
                    "missing parameter 'image'", "expected 'demo steven'"}

ErrorsOfCheck(k) ==
    CASE k = 1 -> {ErrEmptyRequest, ErrNameMissing, ErrMetadataMissing}
      [] k = 2 -> {ErrKindUnsupported}
      [] k = 3 -> {ErrDelayMissing}
      [] k = 4 -> {ErrCronMissing, ErrCronInvalid}
      [] k = 5 -> {ErrUnknownJob}
      [] k = 6 -> ValidatorErrors

\* The errors that make a request an InvalidRequest
InvalidRequestErrors ==
    ErrorsOfCheck(1) \cup ErrorsOfCheck(2) \cup ErrorsOfCheck(3) \cup ErrorsOfCheck(4)

OpsOf(calls) == [i \in 1..Len(calls) |-> calls[i].op]

\* C1: LaunchJob returns the error of the earliest violated check of the
\* normative order (1 name and metadata, 2 kind, 3 schedule_delay, 4 cron_spec,
\* 5 registry, 6 parameter validator) and evaluates no later check: the registry
\* is not looked up when one of checks 1-4 fails, the validator is not called
\* when one of checks 1-5 fails, and nothing is enqueued when any check fails.
C1_CheckOrder ==
    ctlOp = "LaunchJob" =>
        LET k == FirstViolated(ctlReq) IN
        /\ k # 0 => /\ ctlRet.err \in ErrorsOfCheck(k)
                    /\ IsNil(ctlRet.res.Stats)
        /\ k \in 1..4 => ctlCalls = << >>
        /\ k = 5 => OpsOf(ctlCalls) = <<"IsKnownJob">>
        /\ k = 6 => OpsOf(ctlCalls) = <<"IsKnownJob", "ValidateJobParameters">>
        /\ k = 0 => ctlRet.err \notin
                       (InvalidRequestErrors \cup {ErrUnknownJob} \cup ValidatorErrors)

\* C1 witness: a request with an unsupported kind, an unregistered name and
\* bad parameters was rejected for its kind
C1_Witness ==
    /\ ctlOp = "LaunchJob"
    /\ Violated(ctlReq) = {2, 5, 6}
    /\ ctlRet.err = ErrKindUnsupported

\* The pool call the dispatch table gives a valid request
ExpectedDispatch(req) ==
    LET j == req.Job
        m == req.Job.Metadata
    IN  CASE m.JobKind = JobKindGeneric ->
                 Call("Enqueue", <<j.Name, j.Parameters, m.IsUnique>>)
          [] m.JobKind = JobKindScheduled ->
                 Call("Schedule", <<j.Name, j.Parameters, m.ScheduleDelay, m.IsUnique>>)
          [] m.JobKind = JobKindPeriodic ->
                 Call("PeriodicallyEnqueue", <<j.Name, j.Parameters, m.Cron>>)

\* C2: for a request that passes every check LaunchJob makes exactly one
\* enqueue call on the pool, the one the dispatch table gives its kind, with the
\* request's own name, parameters, delay, cron and unique values, and returns
\* the pool's error when that call fails.
C2_Dispatch ==
    (ctlOp = "LaunchJob" /\ Violated(ctlReq) = {}) =>
        /\ CallsOf(ctlCalls, EnqueueOps) = <<ExpectedDispatch(ctlReq)>>
        /\ ctlEnv.enqErr \in EnqueueAnswers
        /\ ctlRet.err = ctlEnv.enqErr

\* C2 witness: a valid Scheduled request reached pool.Schedule, which failed
C2_Witness ==
    /\ ctlOp = "LaunchJob"
    /\ Violated(ctlReq) = {}
    /\ ctlReq.Job.Metadata.JobKind = JobKindScheduled
    /\ OpsOf(CallsOf(ctlCalls, EnqueueOps)) = <<"Schedule">>
    /\ ctlRet.err = ErrJobAlreadyExists

EnqueueSucceeded == ctlOp = "LaunchJob" /\ ctlEnv.enqErr = NoErr

\* C3: when the enqueue succeeds and status_hook is not blank, RegisterHook is
\* called exactly once with the ID of the job just enqueued and the hook URL,
\* hook_status is "activated" if it succeeds and "error" if it fails, and
\* LaunchJob succeeds either way; otherwise RegisterHook is not called and
\* hook_status stays unset.
C3_Hook ==
    ctlOp = "LaunchJob" =>
        LET hookCalls == CallsOf(ctlCalls, {"RegisterHook"}) IN
        IF EnqueueSucceeded /\ ~Blank(ctlReq.Job.StatusHook)
        THEN /\ hookCalls = <<Call("RegisterHook",
                                   <<JobIDOf(poolEnq), ctlReq.Job.StatusHook>>)>>
             /\ ctlRet.res.Stats.JobID = JobIDOf(poolEnq)
             /\ ctlEnv.hookErr \in HookAnswers
             /\ ctlRet.res.Stats.HookStatus =
                    (IF ctlEnv.hookErr = NoErr THEN "activated" ELSE "error")
             /\ ctlRet.err = NoErr
        ELSE /\ hookCalls = << >>
             /\ IsNil(ctlRet.res.Stats) \/ ctlRet.res.Stats.HookStatus = ""

\* C3 witness: the job was enqueued, RegisterHook failed, LaunchJob succeeded
\* with hook_status "error"
C3_Witness ==
    /\ EnqueueSucceeded
    /\ ctlEnv.hookErr = ErrHook
    /\ ctlRet.err = NoErr
    /\ ctlRet.res.Stats.HookStatus = "error"

\* C4: a Scheduled request with schedule_delay 0 and a Periodic request whose
\* cron_spec is empty or does not parse are rejected as InvalidRequest before
\* the pool is called, whatever the other fields; a Generic request is never
\* rejected for its schedule_delay or cron_spec.
C4_KindFields ==
    (ctlOp = "LaunchJob" /\ HasMeta(ctlReq)) =>
        LET m == ctlReq.Job.Metadata IN
        /\ (m.JobKind = JobKindScheduled /\ m.ScheduleDelay = 0) =>
               (ctlRet.err \in InvalidRequestErrors /\ ctlCalls = << >>)
        /\ (m.JobKind = JobKindPeriodic
              /\ (Len(m.Cron) = 0 \/ cronParse(m.Cron) # NoErr)) =>
               (ctlRet.err \in InvalidRequestErrors /\ ctlCalls = << >>)
        /\ m.JobKind = JobKindGeneric =>
               /\ ctlRet.err \notin {ErrDelayMissing, ErrCronMissing, ErrCronInvalid}
               /\ ~Blank(ctlReq.Job.Name) => ctlRet.err \notin InvalidRequestErrors

\* C4 witness: an otherwise valid Scheduled request with schedule_delay 0 was
\* rejected for the delay
C4_Witness ==
    /\ ctlOp = "LaunchJob"
    /\ Violated(ctlReq) = {3}
    /\ ctlRet.err = ErrDelayMissing

JobOps == {"GetJob", "StopJob", "CancelJob", "RetryJob"}

\* pool operation each controller operation forwards to
ForwardedTo(op) == IF op = "GetJob" THEN "GetJobStats" ELSE op

\* C5: GetJob, StopJob, CancelJob, RetryJob and GetJobLogData return the
\* empty-ID error for a blank job ID without calling the pool or the file
\* system; with another ID the first four call the pool operation of the same
\* name once with that ID and return its answer unchanged.
C5_JobID ==
    (ctlOp \in JobOps \cup {"GetJobLogData"}) =>
        IF Blank(ctlReq)
        THEN ctlRet.err = ErrEmptyJobID /\ ctlCalls = << >>
        ELSE ctlOp \in JobOps =>
               /\ ctlCalls = <<Call(ForwardedTo(ctlOp), <<ctlReq>>)>>
               /\ ctlRet = ctlEnv

\* C5 witness: CancelJob was called with an ID of spaces and refused
C5_Witness ==
    /\ ctlOp = "CancelJob"
    /\ ctlReq = BlankS
    /\ ctlRet.err = ErrEmptyJobID

\* C15: validation errors are local: when LaunchJob fails in validJobReq, in
\* the known-job check or in the validation of the parameters, it has called
\* none of Enqueue, Schedule, PeriodicallyEnqueue and RegisterHook, it returns
\* empty stats, and what the pool holds is as it was.
C15_RejectLocal ==
    /\ []((ctlOp = "LaunchJob" /\ Violated(ctlReq) # {}) =>
              /\ CallsOf(ctlCalls, EnqueueOps \cup {"RegisterHook"}) = << >>
              /\ ctlRet.res = EmptyStats
              /\ ctlRet.err # NoErr)
    /\ [][(ctlOp' = "LaunchJob" /\ Violated(ctlReq') # {}) =>
              (poolEnq' = poolEnq /\ poolHooks' = poolHooks)]_vars

\* C15 witness: with one job and its hook in the pool, a request whose only
\* fault is in its parameters was rejected and the pool holds what it held
C15_Witness ==
    /\ ctlOp = "LaunchJob"
    /\ Violated(ctlReq) = {6}
    /\ OpsOf(ctlCalls) = <<"IsKnownJob", "ValidateJobParameters">>
    /\ ctlRet.res = EmptyStats
    /\ poolEnq = 1
    /\ poolHooks = {1}

(***************************************************************************)
(* package runtime: the job registry and Bootstrap.LoadAndRun              *)
(***************************************************************************)
MaxRegister == 3
MaxInflight == 2

\* make(chan error, 1)
ErrorChanCap == 1
\* make(chan os.Signal, 1)
SigCap == 1
\* make(chan bool): the channel "close" without its buffer
CloseUnbuffered == ErrorChanCap - 1

\* make(chan bool, 1)
CloseCap == 1

RegNames == {Demo, <<"J", "2">>}
JobFuncs == {"DemoJob", "OtherJob"}
NoJobs == [n \in {} |-> ""]

Signals == {"SIGINT", "SIGTERM"}
SteadyErrors == {"pool error", "server error"}

\* config.DefaultConfig.PoolConfig.Backend of a configuration that Load accepted
ConfigBackend == "redis"

\* Register overwriting an entry that exists
RegisterOverwriting(jobs, jobName, jobFunc) ==
    [jobs |-> [n \in DOMAIN jobs \cup {jobName} |->
                   IF n = jobName THEN jobFunc ELSE jobs[n]],
     panic |-> FALSE]

\* Register: the registry after the call, and whether the call panicked
Register(jobs, jobName, jobFunc) ==
    IF jobName \notin DOMAIN jobs
    THEN [jobs |-> [n \in DOMAIN jobs \cup {jobName} |->
                        IF n = jobName THEN jobFunc ELSE jobs[n]],
          panic |-> FALSE]
    ELSE [jobs |-> jobs, panic |-> TRUE]

Running == exitKind = "none"

\* logger.Fatalf: the process exits at once
Fatal(msg) ==
    /\ exitKind' = "fatal"
    /\ exitErr' = msg
    /\ mainPc' = "exited"

\* Register without the restriction to the time before LoadAndRun
RegisterCallAnytime ==
    /\ Running
    /\ regCount < MaxRegister
    /\ \E jobName \in RegNames, jobFunc \in JobFuncs :
         LET r == Register(registerJobs, jobName, jobFunc) IN
         /\ registerJobs' = r.jobs
         /\ regCount' = regCount + 1
         /\ regLast' = [name |-> jobName, func |-> jobFunc]
         /\ IF r.panic THEN /\ exitKind' = "panic" /\ exitErr' = "duplicate job register" /\ mainPc' = "exited"
            ELSE UNCHANGED <<exitKind, exitErr, mainPc>>
    /\ UNCHANGED <<started, ctxCancelled, wg, errorChan, firstPushed, sig, trigger,
                   mainErr, close, timerPc, timerFired, apiStops, ctlVars, ctxVars, cfgVars>>

\* main: runtime.Register(...)
RegisterCall ==
    /\ Running /\ mainPc = "main"
    /\ regCount < MaxRegister
    /\ \E jobName \in RegNames, jobFunc \in JobFuncs :
         LET r == Register(registerJobs, jobName, jobFunc) IN
         /\ registerJobs' = r.jobs
         /\ regCount' = regCount + 1
         /\ regLast' = [name |-> jobName, func |-> jobFunc]
         /\ IF r.panic
            THEN /\ exitKind' = "panic"
                 /\ exitErr' = "duplicate job register"
                 /\ mainPc' = "exited"
            ELSE UNCHANGED <<exitKind, exitErr, mainPc>>
    /\ UNCHANGED <<started, ctxCancelled, wg, errorChan, firstPushed, sig, trigger,
                   mainErr, close, timerPc, timerFired, apiStops, ctlVars, ctxVars, cfgVars>>

\* main: runtime.JobService.LoadAndRun(); the root context is created
CallLoadAndRun ==
    /\ Running /\ mainPc = "main"
    /\ mainPc' = "init_job_context"
    /\ UNCHANGED <<registerJobs, regCount, regLast, started, exitKind, exitErr,
                   ctxCancelled, wg, errorChan, firstPushed, sig, trigger, mainErr, close,
                   timerPc, timerFired, apiStops, ctlVars, ctxVars, cfgVars>>

\* "Build specified job context"
InitJobContext ==
    /\ Running /\ mainPc = "init_job_context"
    /\ \E e \in {NoErr, "init failed"} :
         IF e = NoErr
         THEN /\ mainPc' = "load_pool"
              /\ started' = started \cup {"JobContext"}
              /\ UNCHANGED <<exitKind, exitErr>>
         ELSE /\ Fatal("Failed to initialize job context")
              /\ UNCHANGED started
    /\ UNCHANGED <<registerJobs, regCount, regLast, ctxCancelled, wg, errorChan,
                   firstPushed, sig, trigger, mainErr, close, timerPc, timerFired, apiStops,
                   ctlVars, ctxVars, cfgVars>>

\* LoadPool without the test of the registry
LoadPoolNoCheck ==
    /\ Running /\ mainPc = "load_pool"
    /\ IF ConfigBackend # "redis"
       THEN Fatal("Worker pool backend is not supported") /\ UNCHANGED started
       ELSE /\ mainPc' = "pool_register_jobs"
            /\ started' = started \cup {"NewGoCraftWorkPool"}
            /\ UNCHANGED <<exitKind, exitErr>>
    /\ UNCHANGED <<registerJobs, regCount, regLast, ctxCancelled, wg, errorChan,
                   firstPushed, sig, trigger, mainErr, close, timerPc, timerFired, apiStops,
                   ctlVars, ctxVars, cfgVars>>

\* "Start the pool": the backend test, and loadAndRunRedisWorkerPool up to
\* the test of the registry
LoadPool ==
    /\ Running /\ mainPc = "load_pool"
    /\ IF ConfigBackend # "redis"
       THEN Fatal("Worker pool backend is not supported") /\ UNCHANGED started
       ELSE IF DOMAIN registerJobs = {}
       THEN /\ Fatal("Failed to load and run worker pool: no job register")
            /\ started' = started \cup {"NewGoCraftWorkPool"}
       ELSE /\ mainPc' = "pool_register_jobs"
            /\ started' = started \cup {"NewGoCraftWorkPool"}
            /\ UNCHANGED <<exitKind, exitErr>>
    /\ UNCHANGED <<registerJobs, regCount, regLast, ctxCancelled, wg, errorChan,
                   firstPushed, sig, trigger, mainErr, close, timerPc, timerFired, apiStops,
                   ctlVars, ctxVars, cfgVars>>

\* loadAndRunRedisWorkerPool: redisWorkerPool.RegisterJobs(registerJobs)
PoolRegisterJobs ==
    /\ Running /\ mainPc = "pool_register_jobs"
    /\ \E e \in {NoErr, "register jobs failed"} :
         IF e = NoErr
         THEN /\ mainPc' = "pool_start"
              /\ started' = started \cup {"RegisterJobs"}
              /\ UNCHANGED <<exitKind, exitErr>>
         ELSE /\ Fatal("Failed to load and run worker pool: register jobs failed")
              /\ UNCHANGED started
    /\ UNCHANGED <<registerJobs, regCount, regLast, ctxCancelled, wg, errorChan,
                   firstPushed, sig, trigger, mainErr, close, timerPc, timerFired, apiStops,
                   ctlVars, ctxVars, cfgVars>>

\* loadAndRunRedisWorkerPool: redisWorkerPool.Start()
PoolStart ==
    /\ Running /\ mainPc = "pool_start"
    /\ \E e \in {NoErr, "start failed"} :
         IF e = NoErr
         THEN /\ mainPc' = "new_controller"
              /\ started' = started \cup {"PoolStart"}
              /\ UNCHANGED <<exitKind, exitErr>>
         ELSE /\ Fatal("Failed to load and run worker pool: start failed")
              /\ UNCHANGED started
    /\ UNCHANGED <<registerJobs, regCount, regLast, ctxCancelled, wg, errorChan,
                   firstPushed, sig, trigger, mainErr, close, timerPc, timerFired, apiStops,
                   ctlVars, ctxVars, cfgVars>>

\* "Initialize controller"
NewController ==
    /\ Running /\ mainPc = "new_controller"
    /\ mainPc' = "api_server"
    /\ started' = started \cup {"Controller"}
    /\ UNCHANGED <<registerJobs, regCount, regLast, exitKind, exitErr, ctxCancelled, wg,
                   errorChan, firstPushed, sig, trigger, mainErr, close, timerPc, timerFired,
                   apiStops, ctlVars, ctxVars, cfgVars>>

\* "Start the API server"
LoadAndRunAPIServer ==
    /\ Running /\ mainPc = "api_server"
    /\ mainPc' = "log_sweeper"
    /\ started' = started \cup {"APIServer"}
    /\ UNCHANGED <<registerJobs, regCount, regLast, exitKind, exitErr, ctxCancelled, wg,
                   errorChan, firstPushed, sig, trigger, mainErr, close, timerPc, timerFired,
                   apiStops, ctlVars, ctxVars, cfgVars>>

\* "Start outdated log files sweeper"
StartLogSweeper ==
    /\ Running /\ mainPc = "log_sweeper"
    /\ mainPc' = "signal_notify"
    /\ started' = started \cup {"LogSweeper"}
    /\ UNCHANGED <<registerJobs, regCount, regLast, exitKind, exitErr, ctxCancelled, wg,
                   errorChan, firstPushed, sig, trigger, mainErr, close, timerPc, timerFired,
                   apiStops, ctlVars, ctxVars, cfgVars>>

\* sig := make(chan os.Signal, 1); signal.Notify(sig, ...)
SignalNotify ==
    /\ Running /\ mainPc = "signal_notify"
    /\ mainPc' = "select"
    /\ started' = started \cup {"SignalNotify"}
    /\ UNCHANGED <<registerJobs, regCount, regLast, exitKind, exitErr, ctxCancelled, wg,
                   errorChan, firstPushed, sig, trigger, mainErr, close, timerPc, timerFired,
                   apiStops, ctlVars, ctxVars, cfgVars>>

\* The select taking "case <-sig"
SelectSignal ==
    /\ Running /\ mainPc = "select"
    /\ sig # << >>
    /\ sig' = Tail(sig)
    /\ trigger' = "signal"
    /\ mainPc' = "cancel"
    /\ UNCHANGED <<registerJobs, regCount, regLast, started, exitKind, exitErr,
                   ctxCancelled, wg, errorChan, firstPushed, mainErr, close, timerPc,
                   timerFired, apiStops, ctlVars, ctxVars, cfgVars>>

\* The select taking "case <-rootContext.ErrorChan" without keeping the error
SelectErrorDropped ==
    /\ Running /\ mainPc = "select"
    /\ errorChan # << >>
    /\ errorChan' = Tail(errorChan)
    /\ trigger' = "error"
    /\ mainPc' = "cancel"
    /\ UNCHANGED <<registerJobs, regCount, regLast, started, exitKind, exitErr,
                   ctxCancelled, wg, firstPushed, sig, mainErr, close, timerPc, timerFired,
                   apiStops, ctlVars, ctxVars, cfgVars>>

\* The select taking "case err = <-rootContext.ErrorChan"
SelectError ==
    /\ Running /\ mainPc = "select"
    /\ errorChan # << >>
    /\ mainErr' = Head(errorChan)
    /\ errorChan' = Tail(errorChan)
    /\ trigger' = "error"
    /\ mainPc' = "cancel"
    /\ UNCHANGED <<registerJobs, regCount, regLast, started, exitKind, exitErr,
                   ctxCancelled, wg, firstPushed, sig, close, timerPc, timerFired,
                   apiStops, ctlVars, ctxVars, cfgVars>>

\* cancel()
Cancel ==
    /\ Running /\ mainPc = "cancel"
    /\ ctxCancelled' = TRUE
    /\ mainPc' = "stop"
    /\ UNCHANGED <<registerJobs, regCount, regLast, started, exitKind, exitErr, wg,
                   errorChan, firstPushed, sig, trigger, mainErr, close, timerPc,
                   timerFired, apiStops, ctlVars, ctxVars, cfgVars>>

\* "Gracefully shutdown": apiServer.Stop()
StopAPIServer ==
    /\ Running /\ mainPc = "stop"
    /\ apiStops' = apiStops + 1
    /\ mainPc' = "go_timer"
    /\ UNCHANGED <<registerJobs, regCount, regLast, started, exitKind, exitErr,
                   ctxCancelled, wg, errorChan, firstPushed, sig, trigger, mainErr, close,
                   timerPc, timerFired, ctlVars, ctxVars, cfgVars>>

\* close := make(chan bool, 1); go func() {...}()
GoTimer ==
    /\ Running /\ mainPc = "go_timer"
    /\ timerPc' = "select"
    /\ mainPc' = "wait"
    /\ UNCHANGED <<registerJobs, regCount, regLast, started, exitKind, exitErr,
                   ctxCancelled, wg, errorChan, firstPushed, sig, trigger, mainErr, close,
                   timerFired, apiStops, ctlVars, ctxVars, cfgVars>>

\* WG.Wait() that returns whatever the counter is
WGWaitNoDrain ==
    /\ Running /\ mainPc = "wait"
    /\ mainPc' = "notify_close"
    /\ UNCHANGED <<registerJobs, regCount, regLast, started, exitKind, exitErr,
                   ctxCancelled, wg, errorChan, firstPushed, sig, trigger, mainErr, close,
                   timerPc, timerFired, apiStops, ctlVars, ctxVars, cfgVars>>

\* rootContext.WG.Wait() returns: the counter is zero
WGWait ==
    /\ Running /\ mainPc = "wait"
    /\ wg = 0
    /\ mainPc' = "notify_close"
    /\ UNCHANGED <<registerJobs, regCount, regLast, started, exitKind, exitErr,
                   ctxCancelled, wg, errorChan, firstPushed, sig, trigger, mainErr, close,
                   timerPc, timerFired, apiStops, ctlVars, ctxVars, cfgVars>>

\* close <- true: into the buffer if it has room, else handed to the timer
\* goroutine if that is waiting in its select, else the send blocks
NotifyClose ==
    /\ Running /\ mainPc = "notify_close"
    /\ IF Len(close) < CloseCap
       THEN close' = Append(close, TRUE) /\ UNCHANGED timerPc
       ELSE timerPc = "select" /\ timerPc' = "done" /\ UNCHANGED close
    /\ mainPc' = "check_err"
    /\ UNCHANGED <<registerJobs, regCount, regLast, started, exitKind, exitErr,
                   ctxCancelled, wg, errorChan, firstPushed, sig, trigger, mainErr,
                   timerFired, apiStops, ctlVars, ctxVars, cfgVars>>

\* The end of LoadAndRun looking into the error channel once more
CheckErrDrain ==
    /\ Running /\ mainPc = "check_err"
    /\ IF mainErr # NoErr
       THEN Fatal(mainErr) /\ UNCHANGED errorChan
       ELSE IF errorChan # << >>
       THEN Fatal(Head(errorChan)) /\ errorChan' = Tail(errorChan)
       ELSE /\ exitKind' = "graceful"
            /\ exitErr' = NoErr
            /\ mainPc' = "exited"
            /\ UNCHANGED errorChan
    /\ UNCHANGED <<registerJobs, regCount, regLast, started, ctxCancelled, wg,
                   firstPushed, sig, trigger, mainErr, close, timerPc,
                   timerFired, apiStops, ctlVars, ctxVars, cfgVars>>

\* if err != nil { logger.Fatalf(...) }; logger.Infof("Server gracefully exit")
CheckErr ==
    /\ Running /\ mainPc = "check_err"
    /\ IF mainErr # NoErr
       THEN Fatal(mainErr)
       ELSE /\ exitKind' = "graceful"
            /\ exitErr' = NoErr
            /\ mainPc' = "exited"
    /\ UNCHANGED <<registerJobs, regCount, regLast, started, ctxCancelled, wg,
                   errorChan, firstPushed, sig, trigger, mainErr, close, timerPc,
                   timerFired, apiStops, ctlVars, ctxVars, cfgVars>>

\* The timer case re-arming itself: the goroutine goes back to its select
TimerFireAgain ==
    /\ Running /\ timerPc = "select"
    /\ timerFired' = TRUE
    /\ apiStops' = apiStops + 1
    /\ UNCHANGED <<registerJobs, regCount, regLast, mainPc, started, exitKind, exitErr,
                   ctxCancelled, wg, errorChan, firstPushed, sig, trigger, mainErr, close,
                   timerPc, ctlVars, ctxVars, cfgVars>>

\* The timer goroutine: "case <-timer.C": apiServer.Stop() again
TimerFire ==
    /\ Running /\ timerPc = "select"
    /\ timerFired' = TRUE
    /\ apiStops' = apiStops + 1
    /\ timerPc' = "done"
    /\ UNCHANGED <<registerJobs, regCount, regLast, mainPc, started, exitKind, exitErr,
                   ctxCancelled, wg, errorChan, firstPushed, sig, trigger, mainErr, close,
                   ctlVars, ctxVars, cfgVars>>

\* The timer goroutine: "case <-close": return
TimerClosed ==
    /\ Running /\ timerPc = "select"
    /\ close # << >>
    /\ close' = Tail(close)
    /\ timerPc' = "done"
    /\ UNCHANGED <<registerJobs, regCount, regLast, mainPc, started, exitKind, exitErr,
                   ctxCancelled, wg, errorChan, firstPushed, sig, trigger, mainErr,
                   timerFired, apiStops, ctlVars, ctxVars, cfgVars>>

\* The components that run once the pool has started
Serving == Running /\ "PoolStart" \in started

\* A worker or a server routine begins: rootContext.WG.Add(1). None begins
\* once the system context is cancelled.
WGAdd ==
    /\ Serving /\ ~ctxCancelled
    /\ wg < MaxInflight
    /\ wg' = wg + 1
    /\ UNCHANGED <<registerJobs, regCount, regLast, mainPc, started, exitKind, exitErr,
                   ctxCancelled, errorChan, firstPushed, sig, trigger, mainErr, close,
                   timerPc, timerFired, apiStops, ctlVars, ctxVars, cfgVars>>

\* A worker or a server routine ends: rootContext.WG.Done()
WGDone ==
    /\ Running
    /\ wg > 0
    /\ wg' = wg - 1
    /\ UNCHANGED <<registerJobs, regCount, regLast, mainPc, started, exitKind, exitErr,
                   ctxCancelled, errorChan, firstPushed, sig, trigger, mainErr, close,
                   timerPc, timerFired, apiStops, ctlVars, ctxVars, cfgVars>>

\* A component reports a fatal error: rootContext.ErrorChan <- err
PushError ==
    /\ Serving
    /\ Len(errorChan) < ErrorChanCap
    /\ \E e \in SteadyErrors :
         /\ errorChan' = Append(errorChan, e)
         /\ firstPushed' = IF firstPushed = NoErr THEN e ELSE firstPushed
    /\ UNCHANGED <<registerJobs, regCount, regLast, mainPc, started, exitKind, exitErr,
                   ctxCancelled, wg, sig, trigger, mainErr, close, timerPc, timerFired,
                   apiStops, ctlVars, ctxVars, cfgVars>>

\* The OS delivers a signal the process is notified of; it is dropped when
\* the channel is full
SignalArrives ==
    /\ Running /\ "SignalNotify" \in started
    /\ Len(sig) < SigCap
    /\ \E sg \in Signals : sig' = Append(sig, sg)
    /\ UNCHANGED <<registerJobs, regCount, regLast, mainPc, started, exitKind, exitErr,
                   ctxCancelled, wg, errorChan, firstPushed, trigger, mainErr, close,
                   timerPc, timerFired, apiStops, ctlVars, ctxVars, cfgVars>>

BootInit ==
    /\ registerJobs = NoJobs
    /\ regCount = 0
    /\ regLast = [name |-> EmptyS, func |-> ""]
    /\ mainPc = "main"
    /\ started = {}
    /\ exitKind = "none"
    /\ exitErr = NoErr
    /\ ctxCancelled = FALSE
    /\ wg = 0
    /\ errorChan = << >>
    /\ firstPushed = NoErr
    /\ sig = << >>
    /\ trigger = "none"
    /\ mainErr = NoErr
    /\ close = << >>
    /\ timerPc = "none"
    /\ timerFired = FALSE
    /\ apiStops = 0

\* The steps of the main goroutine
MainStep ==
    \/ RegisterCall
    \/ CallLoadAndRun
    \/ InitJobContext
    \/ LoadPool
    \/ PoolRegisterJobs
    \/ PoolStart
    \/ NewController
    \/ LoadAndRunAPIServer
    \/ StartLogSweeper
    \/ SignalNotify
    \/ SelectSignal
    \/ SelectError
    \/ Cancel
    \/ StopAPIServer
    \/ GoTimer
    \/ WGWait
    \/ NotifyClose
    \/ CheckErr

\* The steps of the timer goroutine
TimerStep == TimerFire \/ TimerClosed

NextBootstrap ==
    \/ MainStep
    \/ TimerStep
    \/ WGAdd
    \/ WGDone
    \/ PushError
    \/ SignalArrives

(***************************************************************************)
(* Claims about the registry and LoadAndRun                                *)
(***************************************************************************)
ShutdownTriggered == trigger # "none"
Exited == exitKind # "none"

\* C6 as stated: once shutdown is triggered the process always exits, the
\* drain being cut short when the 10 s window expires
C6_ExitsWithinWindow == ShutdownTriggered ~> Exited

\* C6 as amended: LoadAndRun waits for the root wait group without a deadline.
\* The expiry of the 10 s timer only calls apiServer.Stop() a second time and
\* never ends the process: while the counter is above zero after the expiry the
\* process is still running. Once the system context is cancelled and the
\* counter is zero, LoadAndRun does exit.
C6_ExitsOnceDrained ==
    /\ [](timerFired => apiStops = 2)
    /\ []((timerFired /\ wg > 0) => ~Exited)
    /\ (ctxCancelled /\ wg = 0) ~> Exited

\* C6 witness: the timer has expired, work is still in flight and the main
\* goroutine is still waiting
C6_Witness ==
    /\ ShutdownTriggered
    /\ timerFired
    /\ wg > 0
    /\ mainPc = "wait"
    /\ ~Exited

\* Where the main goroutine stands once the drain is over
Drained == mainPc \in {"notify_close", "check_err"} \/ (ShutdownTriggered /\ Exited)

\* C7: an error received from the root error channel starts the same shutdown
\* as a signal (system context cancelled, API server stopped, wait group
\* awaited), and the process then ends by the fatal exit that reports that
\* error, never by the graceful one; after a signal it ends gracefully.
C7_ErrorShutdown ==
    /\ trigger = "error" => (firstPushed # NoErr /\ mainErr = firstPushed)
    /\ trigger = "signal" => mainErr = NoErr
    /\ Drained => (ctxCancelled /\ apiStops >= 1 /\ (mainPc = "notify_close" => wg = 0))
    /\ (ShutdownTriggered /\ Exited) =>
           IF trigger = "error"
           THEN exitKind = "fatal" /\ exitErr = firstPushed
           ELSE exitKind = "graceful"

\* C7 witness: the process ended fatally with the error a component pushed
C7_Witness ==
    /\ trigger = "error"
    /\ exitKind = "fatal"
    /\ exitErr = "server error"
    /\ ctxCancelled /\ apiStops >= 1 /\ wg = 0

\* C8: Register with a name that is already registered panics and leaves the
\* registry as it is, and the panic ends the process before LoadAndRun starts
\* anything; Register with a new name adds that entry and changes no other.
C8_Register ==
    /\ [][regCount' # regCount =>
            LET n == regLast'.name IN
            IF n \in DOMAIN registerJobs
            THEN /\ registerJobs' = registerJobs
                 /\ exitKind' = "panic"
            ELSE /\ DOMAIN registerJobs' = DOMAIN registerJobs \cup {n}
                 /\ registerJobs'[n] = regLast'.func
                 /\ \A m \in DOMAIN registerJobs : registerJobs'[m] = registerJobs[m]
                 /\ exitKind' = "none"]_vars
    /\ [](exitKind = "panic" => (started = {} /\ mainPc = "exited"))

\* C8 witness: a second registration under a name, with another job, panicked
\* and the first registration is still there
C8_Witness ==
    /\ exitKind = "panic"
    /\ regLast.name \in DOMAIN registerJobs
    /\ registerJobs[regLast.name] # regLast.func

\* C14: every shutdown goes trigger, cancellation of the ambient signal,
\* API server Stop, wait for the in-flight work: the ambient signal is never
\* cancelled before a trigger arrived, the API server is never stopped before
\* the signal is cancelled, the wait starts only after the Stop, and
\* LoadAndRun never reaches its exit while the wait group is above zero.
C14_ShutdownOrder ==
    /\ [](ctxCancelled => ShutdownTriggered)
    /\ [](apiStops > 0 => ctxCancelled)
    /\ [](mainPc \in {"wait", "notify_close", "check_err"} => apiStops > 0)
    /\ [](Exited => wg = 0)
    /\ [][(~ctxCancelled /\ ctxCancelled') => (ShutdownTriggered /\ apiStops = 0)]_vars
    /\ [][(apiStops = 0 /\ apiStops' > 0) => (ctxCancelled /\ mainPc = "stop")]_vars
    /\ [][(~Exited /\ Exited' /\ ShutdownTriggered) =>
              (wg = 0 /\ ctxCancelled /\ apiStops > 0)]_vars

\* C14 witness: a signal, the cancellation, two Stops and the drain of two
\* workers led to the graceful exit
C14_Witness ==
    /\ trigger = "signal"
    /\ exitKind = "graceful"
    /\ ctxCancelled
    /\ apiStops = 2
    /\ timerFired
    /\ wg = 0

\* C16: the registry is written only before LoadAndRun has started anything
\* and never afterwards; the pool is created before its RegisterJobs, which
\* is given a non-empty registry and precedes Start; Start precedes the
\* controller, the controller the API server, so that whenever the API
\* server can serve, the pool holds the registered jobs and is started.
PoolSteps == <<"NewGoCraftWorkPool", "RegisterJobs", "PoolStart", "Controller", "APIServer">>
C16_RegistryFrozen ==
    /\ [][registerJobs' # registerJobs => (mainPc = "main" /\ started = {})]_vars
    /\ [][started # {} => registerJobs' = registerJobs]_vars
    /\ [](\A i \in 2..Len(PoolSteps) :
             PoolSteps[i] \in started => PoolSteps[i - 1] \in started)
    /\ []("RegisterJobs" \in started => DOMAIN registerJobs # {})
    /\ [][\A i \in 2..Len(PoolSteps) :
             (PoolSteps[i] \notin started /\ PoolSteps[i] \in started') =>
                 (PoolSteps[i - 1] \in started /\ registerJobs' = registerJobs)]_vars
C16_Witness ==
    /\ {"RegisterJobs", "PoolStart", "Controller", "APIServer"} \subseteq started
    /\ Cardinality(DOMAIN registerJobs) = 2
    /\ regCount = 2

\* C17: with an empty registry LoadAndRun ends fatally with "no job
\* register" as soon as it reaches the pool: the pool's RegisterJobs and
\* Start are never reached and no controller, API server, sweeper or signal
\* handler is set up.  When RegisterJobs or Start fails, LoadAndRun ends
\* fatally with that error and nothing after the failed step is started.
NoJobRegister == "Failed to load and run worker pool: no job register"
RegisterJobsFailed == "Failed to load and run worker pool: register jobs failed"
StartFailed == "Failed to load and run worker pool: start failed"
AfterPool == {"Controller", "APIServer", "LogSweeper", "SignalNotify"}
C17_EmptyRegistryFails ==
    /\ [](DOMAIN registerJobs = {} =>
             /\ started \cap ({"RegisterJobs", "PoolStart"} \cup AfterPool) = {}
             /\ mainPc \in {"main", "init_job_context", "load_pool", "exited"}
             /\ ("NewGoCraftWorkPool" \in started =>
                    exitKind = "fatal" /\ exitErr = NoJobRegister))
    /\ [][(mainPc = "load_pool" /\ mainPc' # mainPc /\ DOMAIN registerJobs = {}) =>
              (exitKind' = "fatal" /\ exitErr' = NoJobRegister /\ mainPc' = "exited")]_vars
    /\ [](exitErr = RegisterJobsFailed =>
             /\ exitKind = "fatal" /\ mainPc = "exited"
             /\ started \cap ({"RegisterJobs", "PoolStart"} \cup AfterPool) = {})
    /\ [](exitErr = StartFailed =>
             /\ exitKind = "fatal" /\ mainPc = "exited"
             /\ started \cap ({"PoolStart"} \cup AfterPool) = {})
    /\ [][Exited => started' = started]_vars
    /\ ((mainPc = "load_pool" /\ DOMAIN registerJobs = {}) ~> (exitKind = "fatal"))
C17_Witness ==
    /\ DOMAIN registerJobs = {}
    /\ exitKind = "fatal" /\ exitErr = NoJobRegister
    /\ started = {"JobContext", "NewGoCraftWorkPool"}
C17_WitnessStartFails ==
    /\ exitKind = "fatal" /\ exitErr = StartFailed
    /\ started = {"JobContext", "NewGoCraftWorkPool", "RegisterJobs"}

\* C18: a value leaves the root error channel only in the select of
\* LoadAndRun, as the trigger of the shutdown, and so at most once in a run;
\* once the shutdown is triggered nothing is received from the channel any
\* more.  After a signal the error kept by LoadAndRun stays nil whatever is
\* pushed during the drain, and the run ends gracefully without an error.
Received == Len(errorChan') < Len(errorChan)
C18_ReceiveOnce ==
    /\ [][Received => /\ mainPc = "select" /\ trigger = "none"
                      /\ trigger' = "error" /\ mainErr' = Head(errorChan)]_vars
    /\ [][ShutdownTriggered => (trigger' = trigger /\ ~Received /\ mainErr' = mainErr)]_vars
    /\ [][(trigger = "signal" /\ errorChan' # errorChan) =>
              (Len(errorChan') > Len(errorChan) /\ exitKind' = exitKind /\ exitErr' = exitErr)]_vars
    /\ [](trigger = "signal" => mainErr = NoErr)
    /\ []((trigger = "signal" /\ Exited) => (exitKind = "graceful" /\ exitErr = NoErr))
C18_Witness ==
    /\ trigger = "signal" /\ exitKind = "graceful" /\ exitErr = NoErr
    /\ errorChan = <<"pool error">>
    /\ firstPushed = "pool error"

\* The parts of C19 that do not depend on when the timer case is taken:
\* from the first Stop on the API server has been stopped once or twice, the
\* second Stop is the timer case of the goroutine's select and is taken at
\* most once, the send on the one-slot channel "close" finds room, and once
\* the wait group has drained LoadAndRun reaches its exit.
StopsDuringShutdown ==
    /\ [](apiStops <= 2)
    /\ []((mainPc \in {"go_timer", "wait", "notify_close", "check_err"}
             \/ (ShutdownTriggered /\ Exited)) => apiStops >= 1)
    /\ [](timerFired <=> apiStops = 2)
    /\ [][apiStops' # apiStops =>
              \/ (apiStops = 0 /\ apiStops' = 1 /\ mainPc = "stop")
              \/ (apiStops = 1 /\ apiStops' = 2 /\ timerPc = "select" /\ timerPc' = "done")]_vars
    /\ [](mainPc = "notify_close" => Len(close) < CloseCap)
    /\ [][(mainPc = "notify_close" /\ mainPc' # mainPc) =>
              (mainPc' = "check_err" /\ close' = <<TRUE>>)]_vars
    /\ ((mainPc = "notify_close") ~> Exited)

\* C19 as amended: the second Stop is taken while the goroutine is still in
\* its select, the notification not yet received by it and LoadAndRun not
\* yet returned; the notification may already have been sent.
C19_StopTwiceAtMost ==
    /\ StopsDuringShutdown
    /\ [][(apiStops = 1 /\ apiStops' = 2) =>
              (~Exited /\ mainPc \in {"wait", "notify_close", "check_err"}
               /\ close' = close)]_vars
C19_Witness ==
    /\ apiStops = 2 /\ timerFired /\ timerPc = "done"
    /\ close = <<TRUE>>
    /\ Exited /\ ShutdownTriggered

\* C19: during shutdown Stop is invoked once or twice, the second time only
\* if the timer case is taken before the main routine has sent the
\* notification of the drained wait group; the send on "close" never blocks
\* and LoadAndRun then reaches its exit.
C19_SecondStopBeforeDrain ==
    /\ StopsDuringShutdown
    /\ [][(apiStops = 1 /\ apiStops' = 2) =>
              (mainPc \in {"wait", "notify_close"} /\ close = << >>)]_vars

(***************************************************************************)
(* package impl: the job execution context                                 *)
(***************************************************************************)
MaxBuilds == 2

\* Values of the interface{} entries of JobData.ExtraData
NilValue == [kind |-> "nil", type |-> "", fn |-> ""]
StringValue == [kind |-> "string", type |-> "string", fn |-> ""]
\* a func value of dynamic type t; fn = "" is the nil func of that type
FuncValue(t, fn) == [kind |-> "func", type |-> t, fn |-> fn]

\* reflect.TypeOf(v).Kind(): TypeOf gives nil for a nil interface value and
\* calling Kind on it panics
ReflectKindPanics(v) == v.kind = "nil"
ReflectKind(v) == v.kind

\* v.(T) for a func type T: ok only when the dynamic type is T
TypeAssert(v, t) == v.kind = "func" /\ v.type = t

NoFunc == ""
NoLogger == ""
NoProperties == [k \in {} |-> ""]

\* impl.NewContext
NewContext(sysCtx) ==
    [isNil |-> FALSE, sysContext |-> sysCtx, logger |-> NoLogger,
     opCommandFunc |-> NoFunc, checkInFunc |-> NoFunc, properties |-> NoProperties]

\* Build, the injection of one closure: the closure found under key, NoFunc
\* if there is none of type t; panics is whether reflection panics on the entry
Inject(dep, key, t) ==
    IF key \in DOMAIN dep.ExtraData
    THEN LET v == dep.ExtraData[key] IN
         IF ReflectKindPanics(v) THEN [panics |-> TRUE, fn |-> NoFunc]
         ELSE IF ReflectKind(v) = "func" /\ TypeAssert(v, t)
              THEN [panics |-> FALSE, fn |-> v.fn]
              ELSE [panics |-> FALSE, fn |-> NoFunc]
    ELSE [panics |-> FALSE, fn |-> NoFunc]

\* Build that leaves the new property bag empty
BuildNoCopy(c, dep, jobLogger) ==
    LET jContext == [isNil |-> FALSE, sysContext |-> c.sysContext, logger |-> jobLogger,
                     opCommandFunc |-> NoFunc, checkInFunc |-> NoFunc,
                     properties |-> NoProperties]
        op == Inject(dep, "opCommandFunc", "CheckOPCmdFunc")
        ci == Inject(dep, "checkInFunc", "CheckInFunc")
    IN  IF jobLogger = NoLogger
        THEN [outcome |-> "error", err |-> "failed to initialize job logger", ctx |-> Nil]
        ELSE IF op.panics
        THEN [outcome |-> "panic", err |-> "nil pointer dereference", ctx |-> Nil]
        ELSE IF op.fn = NoFunc
        THEN [outcome |-> "error", err |-> "failed to inject opCommandFunc", ctx |-> Nil]
        ELSE IF ci.panics
        THEN [outcome |-> "panic", err |-> "nil pointer dereference", ctx |-> Nil]
        ELSE IF ci.fn = NoFunc
        THEN [outcome |-> "error", err |-> "failed to inject checkInFunc", ctx |-> Nil]
        ELSE [outcome |-> "ok", err |-> NoErr,
              ctx |-> [jContext EXCEPT !.opCommandFunc = op.fn, !.checkInFunc = ci.fn]]

\* Context.Build: what it returns or how it ends, given the logger that
\* jlogger.New gives (NoLogger: nil)
Build(c, dep, jobLogger) ==
    LET jContext == [isNil |-> FALSE, sysContext |-> c.sysContext, logger |-> jobLogger,
                     opCommandFunc |-> NoFunc, checkInFunc |-> NoFunc,
                     properties |-> [k \in DOMAIN c.properties |-> c.properties[k]]]
        op == Inject(dep, "opCommandFunc", "CheckOPCmdFunc")
        ci == Inject(dep, "checkInFunc", "CheckInFunc")
    IN  IF jobLogger = NoLogger
        THEN [outcome |-> "error", err |-> "failed to initialize job logger", ctx |-> Nil]
        ELSE IF op.panics
        THEN [outcome |-> "panic", err |-> "nil pointer dereference", ctx |-> Nil]
        ELSE IF op.fn = NoFunc
        THEN [outcome |-> "error", err |-> "failed to inject opCommandFunc", ctx |-> Nil]
        ELSE IF ci.panics
        THEN [outcome |-> "panic", err |-> "nil pointer dereference", ctx |-> Nil]
        ELSE IF ci.fn = NoFunc
        THEN [outcome |-> "error", err |-> "failed to inject checkInFunc", ctx |-> Nil]
        ELSE [outcome |-> "ok", err |-> NoErr,
              ctx |-> [jContext EXCEPT !.opCommandFunc = op.fn, !.checkInFunc = ci.fn]]

\* Context.Get
Get(c, prop) ==
    IF prop \in DOMAIN c.properties THEN <<c.properties[prop], TRUE>> ELSE <<"", FALSE>>

\* Context.Checkin: the closure called (NoFunc: none) and the error returned
Checkin(c, status) ==
    IF c.checkInFunc # NoFunc
    THEN [called |-> c.checkInFunc, err |-> NoErr]
    ELSE [called |-> NoFunc, err |-> "nil check in function"]

\* Context.OPCommand: the closure called and the (command, ok) returned, given
\* what the closure would answer
OPCommand(c, answer) ==
    IF c.opCommandFunc # NoFunc
    THEN [called |-> c.opCommandFunc, ret |-> answer]
    ELSE [called |-> NoFunc, ret |-> <<"", FALSE>>]

\* Inputs
OpValues == {NilValue, StringValue, FuncValue("func()", "f"),
             FuncValue("CheckInFunc", "ci1"), FuncValue("CheckOPCmdFunc", NoFunc),
             FuncValue("CheckOPCmdFunc", "op1"), FuncValue("CheckOPCmdFunc", "op2")}

CheckInValues == {NilValue, StringValue, FuncValue("func()", "f"),
                  FuncValue("CheckOPCmdFunc", "op1"), FuncValue("CheckInFunc", NoFunc),
                  FuncValue("CheckInFunc", "ci1")}

ExtraDatas ==
    {NoProperties}
    \cup {("opCommandFunc" :> o) : o \in OpValues}
    \cup {("checkInFunc" :> i) : i \in CheckInValues}
    \cup {("opCommandFunc" :> o) @@ ("checkInFunc" :> i) : o \in OpValues, i \in CheckInValues}

JobDatas == [ID : {JobIDOf(1), JobIDOf(2)}, ExtraData : ExtraDatas]

JobLoggers == {NoLogger, "logger"}

OPAnswers == {<<"", FALSE>>, <<"stop", TRUE>>, <<"cancel", TRUE>>}

\* The contexts at hand: the template and those Build returned
Contexts == {tplCtx} \cup {jobCtxs[i] : i \in 1..Len(jobCtxs)}

\* The pool builds the context of a job execution from the template
BuildCall ==
    /\ Len(jobCtxs) < MaxBuilds
    /\ \E dep \in JobDatas, jobLogger \in JobLoggers :
         LET r == Build(tplCtx, dep, jobLogger) IN
         /\ ctxLast' = [isNil |-> FALSE, op |-> "Build", dep |-> dep,
                        outcome |-> r.outcome, err |-> r.err, ctx |-> r.ctx]
         /\ jobCtxs' = IF r.outcome = "ok" THEN Append(jobCtxs, r.ctx) ELSE jobCtxs
    /\ UNCHANGED <<tplCtx, ctlVars, bootVars, cfgVars>>

\* A job asks its context for the pending command
OPCommandCall ==
    /\ \E c \in Contexts, answer \in OPAnswers :
         LET r == OPCommand(c, answer) IN
         ctxLast' = [isNil |-> FALSE, op |-> "OPCommand", on |-> c,
                     called |-> r.called, ret |-> r.ret]
    /\ UNCHANGED <<tplCtx, jobCtxs, ctlVars, bootVars, cfgVars>>

\* A job checks in
CheckinCall ==
    /\ \E c \in Contexts :
         LET r == Checkin(c, "30%") IN
         ctxLast' = [isNil |-> FALSE, op |-> "Checkin", on |-> c,
                     called |-> r.called, err |-> r.err]
    /\ UNCHANGED <<tplCtx, jobCtxs, ctlVars, bootVars, cfgVars>>

\* A job reads a property
GetCall ==
    /\ \E c \in Contexts, prop \in {"email_from", "email_to"} :
         ctxLast' = [isNil |-> FALSE, op |-> "Get", on |-> c, prop |-> prop,
                     ret |-> Get(c, prop)]
    /\ UNCHANGED <<tplCtx, jobCtxs, ctlVars, bootVars, cfgVars>>

\* The property bags the template may hold when the pool takes it: the empty
\* one NewContext makes, or one the package has put an entry in
TemplateProperties == {NoProperties, ("email_from" :> "admin@mydomain.com")}

CtxInit ==
    /\ \E props \in TemplateProperties :
         tplCtx = [NewContext("sysCtx") EXCEPT !.properties = props]
    /\ jobCtxs = << >>
    /\ ctxLast = Nil

NextContext ==
    \/ BuildCall
    \/ OPCommandCall
    \/ CheckinCall
    \/ GetCall

(***************************************************************************)
(* Claims about the job execution context                                  *)
(***************************************************************************)
\* the entry under key is a non-nil func of type t
HasClosure(dep, key, t) ==
    /\ key \in DOMAIN dep.ExtraData
    /\ dep.ExtraData[key].kind = "func"
    /\ dep.ExtraData[key].type = t
    /\ dep.ExtraData[key].fn # NoFunc

BothClosures(dep) ==
    /\ HasClosure(dep, "opCommandFunc", "CheckOPCmdFunc")
    /\ HasClosure(dep, "checkInFunc", "CheckInFunc")

\* C9: Build returns an error and no context whenever the JobData lacks the
\* op-command or the check-in closure or holds under either key something that
\* is not a function of the expected type; so every context Build returns has
\* both closures and neither OPCommand nor Checkin dispatches through nil.
C9_BuildFailsWithoutClosures ==
    /\ (~IsNil(ctxLast) /\ ctxLast.op = "Build") =>
           /\ ~BothClosures(ctxLast.dep) =>
                  (ctxLast.outcome = "error" /\ ctxLast.err # NoErr /\ IsNil(ctxLast.ctx))
           /\ ctxLast.outcome = "ok" => BothClosures(ctxLast.dep)
    /\ \A i \in 1..Len(jobCtxs) :
           jobCtxs[i].opCommandFunc # NoFunc /\ jobCtxs[i].checkInFunc # NoFunc

\* C20: Build leaves the template as it is; every context it returns is a new
\* one that has the template's system context, a property bag with exactly
\* the template's entries, and the closures of its own JobData; a context once
\* built is not changed by later builds, so Get on it answers as Get on the
\* template does whatever else was built.  The template itself has no
\* closures: OPCommand on it answers ("", false) and Checkin an error.
LastIs(op) == ~IsNil(ctxLast) /\ ctxLast.op = op
C20_BuildFresh ==
    /\ [][tplCtx' = tplCtx]_vars
    /\ [][/\ Len(jobCtxs') >= Len(jobCtxs)
          /\ \A i \in 1..Len(jobCtxs) : jobCtxs'[i] = jobCtxs[i]]_vars
    /\ [](\A i \in 1..Len(jobCtxs) :
             /\ jobCtxs[i] # tplCtx
             /\ jobCtxs[i].sysContext = tplCtx.sysContext
             /\ jobCtxs[i].properties = tplCtx.properties)
    /\ []((LastIs("Build") /\ ctxLast.outcome = "ok") =>
             /\ ctxLast.ctx = jobCtxs[Len(jobCtxs)]
             /\ ctxLast.ctx.opCommandFunc = ctxLast.dep.ExtraData["opCommandFunc"].fn
             /\ ctxLast.ctx.checkInFunc = ctxLast.dep.ExtraData["checkInFunc"].fn)
    /\ [](LastIs("Get") => ctxLast.ret = Get(tplCtx, ctxLast.prop))
    /\ [](LastIs("OPCommand") =>
             IF ctxLast.on = tplCtx
             THEN ctxLast.called = NoFunc /\ ctxLast.ret = <<"", FALSE>>
             ELSE ctxLast.called = ctxLast.on.opCommandFunc /\ ctxLast.called # NoFunc)
    /\ [](LastIs("Checkin") =>
             IF ctxLast.on = tplCtx
             THEN ctxLast.called = NoFunc /\ ctxLast.err = "nil check in function"
             ELSE ctxLast.called = ctxLast.on.checkInFunc /\ ctxLast.err = NoErr)
    /\ [](tplCtx.opCommandFunc = NoFunc /\ tplCtx.checkInFunc = NoFunc)
C20_Witness ==
    /\ Len(jobCtxs) = 2
    /\ jobCtxs[1].opCommandFunc = "op1" /\ jobCtxs[2].opCommandFunc = "op2"
    /\ tplCtx.properties # NoProperties
    /\ LastIs("Get") /\ ctxLast.on = jobCtxs[1]
    /\ ctxLast.ret = <<"admin@mydomain.com", TRUE>>

(***************************************************************************)
(* package config: Load, loadEnvs and validate.  Strings are sequences of  *)
(* characters; a uint is 64 bits wide, kept as four 16-bit limbs with the  *)
(* least significant first.                                                *)
(***************************************************************************)
MaxLoads == 2

Digits == {"0", "1", "2", "3", "4", "5", "6", "7", "8", "9"}
DigitChars == <<"0", "1", "2", "3", "4", "5", "6", "7", "8", "9">>
DigitVal(ch) == CHOOSE d \in 0..9 : DigitChars[d + 1] = ch
Letters == {"a", "b", "c", "d", "e", "f", "g", "h", "i", "j", "k", "l", "m", "n", "o", "p", "q", "r", "s", "t", "u", "v", "w", "x", "y", "z", "A", "B", "C", "D", "E", "F", "G", "H", "I", "J", "K", "L", "M", "N", "O", "P", "Q", "R", "S", "T", "U", "V", "W", "X", "Y", "Z"}

U64Zero == <<0, 0, 0, 0>>
\* the uint of a small natural
U64(n) == <<n % 65536, (n \div 65536) % 65536, 0, 0>>

\* acc * 10 + d on 64 bits, and whether it left the 64 bits
MulAddDigit(u, d) ==
    LET t1 == u[1] * 10 + d
        t2 == u[2] * 10 + (t1 \div 65536)
        t3 == u[3] * 10 + (t2 \div 65536)
        t4 == u[4] * 10 + (t3 \div 65536)
    IN  [mag |-> <<t1 % 65536, t2 % 65536, t3 % 65536, t4 % 65536>>,
         over |-> t4 >= 65536]

RECURSIVE ParseDigits(_, _)
ParseDigits(s, acc) ==
    IF acc.over \/ s = << >> THEN acc
    ELSE LET r == MulAddDigit(acc.mag, DigitVal(Head(s)))
         IN  ParseDigits(Tail(s), [mag |-> r.mag, over |-> acc.over \/ r.over])

\* strconv.Atoi on a 64-bit int: an optional sign and decimal digits, in
\* the range -2^63 .. 2^63-1.  The int is its sign and its magnitude.
Atoi(s) ==
    LET signed == s # << >> /\ Head(s) \in {"+", "-"}
        neg == s # << >> /\ Head(s) = "-"
        ds == IF signed THEN Tail(s) ELSE s
    IN  IF ds = << >> \/ \E i \in 1..Len(ds) : ds[i] \notin Digits
        THEN [ok |-> FALSE, neg |-> FALSE, mag |-> U64Zero]
        ELSE LET r == ParseDigits(ds, [mag |-> U64Zero, over |-> FALSE])
                 fits == /\ ~r.over
                         /\ \/ r.mag[4] < 32768
                            \/ neg /\ r.mag = <<0, 0, 0, 32768>>
             IN  IF fits THEN [ok |-> TRUE, neg |-> neg, mag |-> r.mag]
                 ELSE [ok |-> FALSE, neg |-> FALSE, mag |-> U64Zero]

\* the conversion that drops the sign of the int
ToUintAbs(i) == i.mag

\* uint(i): the int modulo 2^64, so a negative int wraps around
ToUint(i) ==
    IF ~i.neg THEN i.mag
    ELSE LET n1 == (65535 - i.mag[1]) + 1
             n2 == (65535 - i.mag[2]) + (n1 \div 65536)
             n3 == (65535 - i.mag[3]) + (n2 \div 65536)
             n4 == (65535 - i.mag[4]) + (n3 \div 65536)
         IN  <<n1 % 65536, n2 % 65536, n3 % 65536, n4 % 65536>>

\* utils.IsValidPort: not zero and below 65536
IsValidPort(port) == port # U64Zero /\ port[2] = 0 /\ port[3] = 0 /\ port[4] = 0

\* strings.Contains
Contains(s, sub) ==
    \E i \in 1..(Len(s) - Len(sub) + 1) : SubSeq(s, i, i + Len(sub) - 1) = sub

\* strings.Index and strings.LastIndex of one character, counted from 1,
\* 0 if there is none
IndexOf(s, ch) ==
    IF \E i \in 1..Len(s) : s[i] = ch
    THEN CHOOSE i \in 1..Len(s) : s[i] = ch /\ \A j \in 1..(i - 1) : s[j] # ch
    ELSE 0

LastIndexOf(s, ch) ==
    IF \E i \in 1..Len(s) : s[i] = ch
    THEN CHOOSE i \in 1..Len(s) : s[i] = ch /\ \A j \in (i + 1)..Len(s) : s[j] # ch
    ELSE 0

\* strings.Split on one character
RECURSIVE Split(_, _)
Split(s, ch) ==
    LET i == IndexOf(s, ch)
    IN  IF i = 0 THEN <<s>>
        ELSE <<SubSeq(s, 1, i - 1)>> \o Split(SubSeq(s, i + 1, Len(s)), ch)

JobServiceProtocolHTTPS == <<"h", "t", "t", "p", "s">>
JobServiceProtocolHTTP == <<"h", "t", "t", "p">>
JobServicePoolBackendRedis == <<"r", "e", "d", "i", "s">>
redisSchema == <<"r", "e", "d", "i", "s", ":", "/", "/">>
validLevels == <<"D", "E", "B", "U", "G", ",", "I", "N", "F", "O", ",", "W", "A", "R", "N", "I", "N", "G", ",", "E", "R", "R", "O", "R", ",", "F", "A", "T", "A", "L">>

jobServiceProtocol == "JOB_SERVICE_PROTOCOL"
jobServicePort == "JOB_SERVICE_PORT"
jobServiceHTTPCert == "JOB_SERVICE_HTTPS_CERT"
jobServiceHTTPKey == "JOB_SERVICE_HTTPS_KEY"
jobServiceWorkerPoolBackend == "JOB_SERVICE_POOL_BACKEND"
jobServiceWorkers == "JOB_SERVICE_POOL_WORKERS"
jobServiceRedisURL == "JOB_SERVICE_POOL_REDIS_URL"
jobServiceRedisNamespace == "JOB_SERVICE_POOL_REDIS_NAMESPACE"
jobServiceLoggerBasePath == "JOB_SERVICE_LOGGER_BASE_PATH"
jobServiceLoggerLevel == "JOB_SERVICE_LOGGER_LEVEL"
jobServiceLoggerArchivePeriod == "JOB_SERVICE_LOGGER_ARCHIVE_PERIOD"

\* utils.ReadEnv: the value of the variable, empty if it is not set
ReadEnv(env, key) == env[key]

\* The file system: utils.FileExists and utils.DirExists
CertPath == <<"/", "c">>
KeyPath == <<"/", "k">>
LogDir == <<"/", "l">>
ExistingFiles == {CertPath, KeyPath}
ExistingDirs == {LogDir}
FileExists(path) == path \in ExistingFiles
DirExists(path) == path \in ExistingDirs

\* The zero values of the structs
ZeroConfiguration ==
    [Protocol |-> EmptyS, Port |-> U64Zero, HTTPSConfig |-> Nil,
     PoolConfig |-> Nil, LoggerConfig |-> Nil]
ZeroHTTPSConfig == [isNil |-> FALSE, Cert |-> EmptyS, Key |-> EmptyS]
ZeroPoolConfig ==
    [isNil |-> FALSE, WorkerCount |-> U64Zero, Backend |-> EmptyS, RedisPoolCfg |-> Nil]
ZeroRedisPoolConfig == [isNil |-> FALSE, RedisURL |-> EmptyS, Namespace |-> EmptyS]
ZeroLoggerConfig ==
    [isNil |-> FALSE, BasePath |-> EmptyS, LogLevel |-> EmptyS, ArchivePeriod |-> U64Zero]

DefaultConfig == ZeroConfiguration

\* net/url getScheme
RECURSIVE getSchemeAt(_, _)
getSchemeAt(s, i) ==
    IF i > Len(s) THEN [scheme |-> EmptyS, rest |-> s, err |-> FALSE]
    ELSE IF s[i] \in Letters THEN getSchemeAt(s, i + 1)
    ELSE IF s[i] \in Digits \cup {"+", "-", "."}
         THEN IF i = 1 THEN [scheme |-> EmptyS, rest |-> s, err |-> FALSE]
              ELSE getSchemeAt(s, i + 1)
    ELSE IF s[i] = ":"
         THEN IF i = 1 THEN [scheme |-> EmptyS, rest |-> EmptyS, err |-> TRUE]
              ELSE [scheme |-> SubSeq(s, 1, i - 1), rest |-> SubSeq(s, i + 1, Len(s)),
                    err |-> FALSE]
    ELSE [scheme |-> EmptyS, rest |-> s, err |-> FALSE]

\* net/url validOptionalPort
validOptionalPort(port) ==
    \/ port = EmptyS
    \/ Head(port) = ":" /\ \A i \in 2..Len(port) : port[i] \in Digits

\* the characters net/url leaves alone in a host and in the user information
HostChars ==
    Letters \cup Digits \cup {"-", "_", ".", "~", "!", "$", "&", "(", ")", "*", "+", ",",
                              ";", "=", ":", "[", "]", "<", ">"}
UserinfoChars ==
    Letters \cup Digits \cup {"-", "_", ".", "~", "!", "$", "&", "(", ")", "*", "+", ",",
                              ";", "=", ":", "%", "@"}

\* net/url parseAuthority: whether user information and host are accepted
parseAuthority(authority) ==
    LET i == LastIndexOf(authority, "@")
        userinfo == IF i = 0 THEN EmptyS ELSE SubSeq(authority, 1, i - 1)
        host == SubSeq(authority, i + 1, Len(authority))
        colon == LastIndexOf(host, ":")
    IN  /\ \A k \in 1..Len(userinfo) : userinfo[k] \in UserinfoChars
        /\ \A k \in 1..Len(host) : host[k] \in HostChars
        /\ colon > 0 => validOptionalPort(SubSeq(host, colon, Len(host)))

\* url.Parse as Load and validate use it: whether it returns an error
urlParseFails(rawurl) ==
    IF rawurl = EmptyS THEN FALSE
    ELSE LET sch == getSchemeAt(rawurl, 1)
             rest == sch.rest
             slash == IndexOf(rest, "/")
             segment == IF slash = 0 THEN rest ELSE SubSeq(rest, 1, slash - 1)
         IN  IF sch.err THEN TRUE
             ELSE IF \E k \in 1..Len(rawurl) : rawurl[k] = " " THEN
                  \* a space is accepted in a path only
                  IF HasPrefix(rest, <<"/", "/">>) THEN TRUE ELSE FALSE
             ELSE IF ~HasPrefix(rest, <<"/">>)
                  THEN IF sch.scheme # EmptyS THEN FALSE
                       ELSE IndexOf(segment, ":") > 0
             ELSE IF HasPrefix(rest, <<"/", "/">>)
                     /\ (sch.scheme # EmptyS \/ ~HasPrefix(rest, <<"/", "/", "/">>))
                  THEN LET after == SubSeq(rest, 3, Len(rest))
                           e == IndexOf(after, "/")
                           authority == IF e = 0 THEN after ELSE SubSeq(after, 1, e - 1)
                       IN  ~parseAuthority(authority)
             ELSE FALSE

\* utils.TranslateRedisAddress: "host:port,weight,password,db" to a redis URL
TranslateRedisAddress(commaFormat) ==
    LET sections == Split(commaFormat, ",")
        n == Len(sections)
        base == redisSchema \o sections[1]
        cred == IF n >= 3 /\ ~IsEmptyStr(sections[3])
                THEN <<"a", "r", "b", "i", "t", "r", "a", "r", "y", "_", "u", "s", "e", "r", "n", "a", "m", "e", ":">> \o sections[3] \o <<"@">>
                ELSE EmptyS
        db == IF n >= 4 /\ ~IsEmptyStr(sections[4]) /\ Atoi(sections[4]).ok
              THEN <<"/">> \o sections[4]
              ELSE EmptyS
    IN  IF IsEmptyStr(commaFormat) \/ urlParseFails(base)
        THEN [url |-> EmptyS, ok |-> FALSE]
        ELSE [url |-> redisSchema \o cred \o sections[1] \o db, ok |-> TRUE]

\* A value a YAML document may leave out
Absent == [set |-> FALSE]
Some(v) == [set |-> TRUE, v |-> v]

\* yaml.Unmarshal(data, c): the keys of the document are stored, the fields
\* it leaves out keep their value, a struct c points at is decoded into
Unmarshal(c, doc) ==
    [c EXCEPT
       !.Protocol = IF doc.protocol.set THEN doc.protocol.v ELSE @,
       !.Port = IF doc.port.set THEN doc.port.v ELSE @,
       !.HTTPSConfig =
           IF doc.https_config.set
           THEN [isNil |-> FALSE, Cert |-> doc.https_config.v.cert,
                 Key |-> doc.https_config.v.key]
           ELSE @,
       !.PoolConfig =
           IF doc.worker_pool.set
           THEN [isNil |-> FALSE, WorkerCount |-> doc.worker_pool.v.workers,
                 Backend |-> doc.worker_pool.v.backend,
                 RedisPoolCfg |->
                     IF doc.worker_pool.v.redis_pool.set
                     THEN [isNil |-> FALSE,
                           RedisURL |-> doc.worker_pool.v.redis_pool.v.redis_url,
                           Namespace |-> doc.worker_pool.v.redis_pool.v.namespace]
                     ELSE IF IsNil(@) THEN Nil ELSE @.RedisPoolCfg]
           ELSE @,
       !.LoggerConfig =
           IF doc.logger.set
           THEN [isNil |-> FALSE, BasePath |-> doc.logger.v.path,
                 LogLevel |-> doc.logger.v.level,
                 ArchivePeriod |-> doc.logger.v.archive_period]
           ELSE @]

\* the struct a nil pointer is replaced by before a field of it is set
OrZero(p, zero) == IF IsNil(p) THEN zero ELSE p

\* loadEnvs, the protocol
envProtocol(c, env) ==
    LET prot == ReadEnv(env, jobServiceProtocol)
    IN  IF ~IsEmptyStr(prot) THEN [c EXCEPT !.Protocol = prot] ELSE c

\* the port taken from the variable without its sign
envPortAbs(c, env) ==
    LET p == ReadEnv(env, jobServicePort)
    IN  IF ~IsEmptyStr(p) /\ Atoi(p).ok
        THEN [c EXCEPT !.Port = ToUintAbs(Atoi(p))]
        ELSE c

\* loadEnvs, the port: set only when Atoi accepts the variable
envPort(c, env) ==
    LET p == ReadEnv(env, jobServicePort)
    IN  IF ~IsEmptyStr(p) /\ Atoi(p).ok
        THEN [c EXCEPT !.Port = ToUint(Atoi(p))]
        ELSE c

\* loadEnvs, certificate and key, only when the protocol is https
envHTTPSCert(c, env) ==
    LET cert == ReadEnv(env, jobServiceHTTPCert)
    IN  IF c.Protocol = JobServiceProtocolHTTPS /\ ~IsEmptyStr(cert)
        THEN [c EXCEPT !.HTTPSConfig = [OrZero(@, ZeroHTTPSConfig) EXCEPT !.Cert = cert]]
        ELSE c

envHTTPSKey(c, env) ==
    LET certKey == ReadEnv(env, jobServiceHTTPKey)
    IN  IF c.Protocol = JobServiceProtocolHTTPS /\ ~IsEmptyStr(certKey)
        THEN [c EXCEPT !.HTTPSConfig = [OrZero(@, ZeroHTTPSConfig) EXCEPT !.Key = certKey]]
        ELSE c

\* loadEnvs, the worker pool
envBackend(c, env) ==
    LET backend == ReadEnv(env, jobServiceWorkerPoolBackend)
    IN  IF ~IsEmptyStr(backend)
        THEN [c EXCEPT !.PoolConfig = [OrZero(@, ZeroPoolConfig) EXCEPT !.Backend = backend]]
        ELSE c

envWorkers(c, env) ==
    LET workers == ReadEnv(env, jobServiceWorkers)
    IN  IF ~IsEmptyStr(workers) /\ Atoi(workers).ok
        THEN [c EXCEPT !.PoolConfig =
                  [OrZero(@, ZeroPoolConfig) EXCEPT !.WorkerCount = ToUint(Atoi(workers))]]
        ELSE c

\* loadEnvs, the redis pool, only when the backend is redis
envRedisURL(c, env) ==
    LET redisURL == ReadEnv(env, jobServiceRedisURL)
    IN  IF /\ ~IsNil(c.PoolConfig)
           /\ c.PoolConfig.Backend = JobServicePoolBackendRedis
           /\ ~IsEmptyStr(redisURL)
        THEN [c EXCEPT !.PoolConfig.RedisPoolCfg =
                  [OrZero(@, ZeroRedisPoolConfig) EXCEPT !.RedisURL = redisURL]]
        ELSE c

envRedisNamespace(c, env) ==
    LET rn == ReadEnv(env, jobServiceRedisNamespace)
    IN  IF /\ ~IsNil(c.PoolConfig)
           /\ c.PoolConfig.Backend = JobServicePoolBackendRedis
           /\ ~IsEmptyStr(rn)
        THEN [c EXCEPT !.PoolConfig.RedisPoolCfg =
                  [OrZero(@, ZeroRedisPoolConfig) EXCEPT !.Namespace = rn]]
        ELSE c

\* loadEnvs, the logger
envLoggerBasePath(c, env) ==
    LET loggerPath == ReadEnv(env, jobServiceLoggerBasePath)
    IN  IF ~IsEmptyStr(loggerPath)
        THEN [c EXCEPT !.LoggerConfig =
                  [OrZero(@, ZeroLoggerConfig) EXCEPT !.BasePath = loggerPath]]
        ELSE c

envLoggerLevel(c, env) ==
    LET loggerLevel == ReadEnv(env, jobServiceLoggerLevel)
    IN  IF ~IsEmptyStr(loggerLevel)
        THEN [c EXCEPT !.LoggerConfig =
                  [OrZero(@, ZeroLoggerConfig) EXCEPT !.LogLevel = loggerLevel]]
        ELSE c

envLoggerArchivePeriod(c, env) ==
    LET archivePeriod == ReadEnv(env, jobServiceLoggerArchivePeriod)
    IN  IF ~IsEmptyStr(archivePeriod) /\ Atoi(archivePeriod).ok
        THEN [c EXCEPT !.LoggerConfig =
                  [OrZero(@, ZeroLoggerConfig) EXCEPT
                      !.ArchivePeriod = ToUint(Atoi(archivePeriod))]]
        ELSE c

\* Configuration.loadEnvs: the steps in the order of the code
loadEnvs(c, env) ==
    envLoggerArchivePeriod(envLoggerLevel(envLoggerBasePath(
        envRedisNamespace(envRedisURL(
            envWorkers(envBackend(
                envHTTPSKey(envHTTPSCert(
                    envPort(envProtocol(c, env), env),
                env), env),
            env), env),
        env), env),
    env), env), env)

ErrReadFile == "read config file failed"
ErrUnmarshal == "yaml: unmarshal errors"
ErrProtocol == "protocol should be http or https"
ErrPort == "port number should be a none zero integer and less or equal 65535"
ErrCertMissing == "certificate must be configured"
ErrCertInvalid == "certificate is not correctly configured"
ErrNoPool == "no worker pool is configured"
ErrPoolBackend == "worker pool backend does not support"
ErrNoRedisPool == "redis pool must be configured"
ErrRedisURLEmpty == "URL of redis pool is empty"
ErrRedisURLPrefix == "Invalid redis URL"
ErrRedisURLParse == "Invalid redis URL: parse error"
ErrNamespace == "namespace of redis pool is required"
ErrNoLogger == "missing logger config"
ErrLogPath == "logger path not exists or should be dir"
ErrLogLevel == "logger level can only be one of the valid levels"
ErrArchivePeriod == "logger archive period should be greater than 0"

\* Configuration.validate: the error returned, NoErr for nil
validate(c) ==
    IF c.Protocol # JobServiceProtocolHTTPS /\ c.Protocol # JobServiceProtocolHTTP
    THEN ErrProtocol
    ELSE IF ~IsValidPort(c.Port) THEN ErrPort
    ELSE IF c.Protocol = JobServiceProtocolHTTPS /\ IsNil(c.HTTPSConfig) THEN ErrCertMissing
    ELSE IF /\ c.Protocol = JobServiceProtocolHTTPS
            /\ \/ IsEmptyStr(c.HTTPSConfig.Cert)
               \/ ~FileExists(c.HTTPSConfig.Cert)
               \/ IsEmptyStr(c.HTTPSConfig.Key)
               \/ ~FileExists(c.HTTPSConfig.Key)
         THEN ErrCertInvalid
    ELSE IF IsNil(c.PoolConfig) THEN ErrNoPool
    ELSE IF c.PoolConfig.Backend # JobServicePoolBackendRedis THEN ErrPoolBackend
    ELSE IF IsNil(c.PoolConfig.RedisPoolCfg) THEN ErrNoRedisPool
    ELSE IF IsEmptyStr(c.PoolConfig.RedisPoolCfg.RedisURL) THEN ErrRedisURLEmpty
    ELSE IF ~HasPrefix(c.PoolConfig.RedisPoolCfg.RedisURL, redisSchema) THEN ErrRedisURLPrefix
    ELSE IF urlParseFails(c.PoolConfig.RedisPoolCfg.RedisURL) THEN ErrRedisURLParse
    ELSE IF IsEmptyStr(c.PoolConfig.RedisPoolCfg.Namespace) THEN ErrNamespace
    ELSE IF IsNil(c.LoggerConfig) THEN ErrNoLogger
    ELSE IF ~DirExists(c.LoggerConfig.BasePath) THEN ErrLogPath
    ELSE IF ~Contains(validLevels, c.LoggerConfig.LogLevel) THEN ErrLogLevel
    ELSE IF c.LoggerConfig.ArchivePeriod = U64Zero THEN ErrArchivePeriod
    ELSE NoErr

\* the translation that prepends the scheme to every address url.Parse takes
translateRedisURLAlways(c) ==
    IF ~IsNil(c.PoolConfig) /\ ~IsNil(c.PoolConfig.RedisPoolCfg)
    THEN LET redisAddress == c.PoolConfig.RedisPoolCfg.RedisURL IN
         IF IsEmptyStr(redisAddress) THEN c
         ELSE IF urlParseFails(redisAddress)
              THEN LET t == TranslateRedisAddress(redisAddress) IN
                   IF t.ok THEN [c EXCEPT !.PoolConfig.RedisPoolCfg.RedisURL = t.url] ELSE c
              ELSE [c EXCEPT !.PoolConfig.RedisPoolCfg.RedisURL = redisSchema \o redisAddress]
    ELSE c

\* Load, the translation of the redis address
translateRedisURL(c) ==
    IF ~IsNil(c.PoolConfig) /\ ~IsNil(c.PoolConfig.RedisPoolCfg)
    THEN LET redisAddress == c.PoolConfig.RedisPoolCfg.RedisURL IN
         IF IsEmptyStr(redisAddress) THEN c
         ELSE IF urlParseFails(redisAddress)
              THEN LET t == TranslateRedisAddress(redisAddress) IN
                   IF t.ok THEN [c EXCEPT !.PoolConfig.RedisPoolCfg.RedisURL = t.url] ELSE c
              ELSE IF ~HasPrefix(redisAddress, redisSchema)
                   THEN [c EXCEPT !.PoolConfig.RedisPoolCfg.RedisURL =
                                      redisSchema \o redisAddress]
                   ELSE c
    ELSE c

\* Configuration.Load: the struct it leaves and the error it returns, given
\* the file at yamlFilePath and the environment
Load(c, yamlFilePath, detectEnv, file, env) ==
    IF ~IsEmptyStr(yamlFilePath) /\ file.readErr
    THEN [c |-> c, err |-> ErrReadFile]
    ELSE IF ~IsEmptyStr(yamlFilePath) /\ file.typeErr
    THEN [c |-> Unmarshal(c, file.doc), err |-> ErrUnmarshal]
    ELSE LET c1 == IF ~IsEmptyStr(yamlFilePath) THEN Unmarshal(c, file.doc) ELSE c
             c2 == IF detectEnv THEN loadEnvs(c1, env) ELSE c1
             c3 == translateRedisURL(c2)
         IN  [c |-> c3, err |-> validate(c3)]

\* Inputs: the YAML documents
ConfigPath == <<"/", "e", "t", "c", "/", "c", ".", "y", "m", "l">>
YamlPorts == {Absent, Some(U64(0)), Some(U64(1)), Some(U64(8080)), Some(U64(65535)),
              Some(U64(65536)), Some(<<8080, 0, 1, 0>>)}
YamlProtocols == {Some(JobServiceProtocolHTTP), Some(JobServiceProtocolHTTPS)}
YamlHTTPS == {Absent, Some([cert |-> CertPath, key |-> KeyPath])}
YamlRedisURLs == {<<"r", "e", "d", "i", "s", ":", "/", "/", "r", ":", "6", "3", "7", "9">>, <<"r", ":", "6", "3", "7", "9">>}
YamlPools ==
    {Absent}
    \cup {Some([workers |-> U64(10), backend |-> JobServicePoolBackendRedis,
                redis_pool |-> Some([redis_url |-> u, namespace |-> <<"n", "s">>])]) :
             u \in YamlRedisURLs}
YamlLoggers == {Absent, Some([path |-> LogDir, level |-> <<"I", "N", "F", "O">>, archive_period |-> U64(1)])}
YamlDocs ==
    [protocol : YamlProtocols, port : YamlPorts, https_config : YamlHTTPS,
     worker_pool : YamlPools, logger : YamlLoggers]
\* redis addresses: URLs, host:port, and the comma format
RedisAddresses ==
    {EmptyS, <<"e", ":", "1">>, <<"r", "e", "d", "i", "s", ":", "/", "/", "e", ":", "1">>, <<"1", "2", "7", ".", "0", ".", "0", ".", "1", ":", "6", "3", "7", "9">>,
     <<"r", ":", "6", "3", "7", "9", ",", "1", "0", "0", ",", "p", "w", ",", "0">>,
     <<"1", "2", "7", ".", "0", ".", "0", ".", "1", ":", "6", "3", "7", "9", ",", "1", "0", "0", ",", "p", "w", ",", "1">>,
     <<"1", "0", ".", "0", ".", "0", ".", "1", ":", "6", "3", "7", "9", ",", "1", "0", "0", ",", ",", "1">>}
\* values of logger.level
LogLevels ==
    {EmptyS, <<"D", "E", "B", "U", "G">>, <<"I", "N", "F", "O">>, <<"W", "A", "R", "N", "I", "N", "G">>, <<"E", "R", "R", "O", "R">>, <<"F", "A", "T", "A", "L">>, <<"W", "A", "R", "N">>,
     <<"i", "n", "f", "o">>, <<"T", "R", "A", "C", "E">>, <<"D", "E", "B", "U", "G", ",", "I", "N", "F", "O">>, <<",">>, <<"O">>}
GoodDoc ==
    [protocol |-> Some(JobServiceProtocolHTTP), port |-> Some(U64(8080)),
     https_config |-> Absent,
     worker_pool |-> Some([workers |-> U64(10), backend |-> JobServicePoolBackendRedis,
                           redis_pool |-> Some([redis_url |-> <<"r", "e", "d", "i", "s", ":", "/", "/", "r", ":", "6", "3", "7", "9">>,
                                                namespace |-> <<"n", "s">>])]),
     logger |-> Some([path |-> LogDir, level |-> <<"I", "N", "F", "O">>, archive_period |-> U64(1)])]
\* a file that cannot be read, a file with "port: -1", and the readable ones
YamlFiles ==
    {[readErr |-> TRUE, typeErr |-> FALSE, doc |-> GoodDoc],
     [readErr |-> FALSE, typeErr |-> TRUE, doc |-> [GoodDoc EXCEPT !.port = Absent]]}
    \cup {[readErr |-> FALSE, typeErr |-> FALSE, doc |-> d] : d \in YamlDocs}
    \cup {[readErr |-> FALSE, typeErr |-> FALSE,
           doc |-> [GoodDoc EXCEPT !.logger.v.level = l]] : l \in LogLevels}
    \cup {[readErr |-> FALSE, typeErr |-> FALSE,
           doc |-> [GoodDoc EXCEPT !.worker_pool.v.redis_pool.v.redis_url = u]] :
              u \in RedisAddresses}
    \cup {[readErr |-> FALSE, typeErr |-> FALSE,
           doc |-> [GoodDoc EXCEPT !.worker_pool.v.redis_pool = Absent]]}

\* Inputs: the environment
EnvPorts ==
    {EmptyS, BlankS, <<"8", "0">>, <<"0">>, <<"1">>, <<"6", "5", "5", "3", "5">>, <<"6", "5", "5", "3", "6">>, <<"-", "1">>, <<"-", "8", "0">>, <<"+", "8", "0">>, <<"0", "8", "0">>, <<" ", "8", "0">>,
     <<"8", "o">>, <<"-">>, <<"4", "2", "9", "4", "9", "6", "7", "3", "7", "6">>, <<"9", "2", "2", "3", "3", "7", "2", "0", "3", "6", "8", "5", "4", "7", "7", "5", "8", "0", "7">>, <<"-", "9", "2", "2", "3", "3", "7", "2", "0", "3", "6", "8", "5", "4", "7", "7", "5", "8", "0", "8">>,
     <<"9", "2", "2", "3", "3", "7", "2", "0", "3", "6", "8", "5", "4", "7", "7", "5", "8", "0", "8">>, <<"-", "1", "8", "4", "4", "6", "7", "4", "4", "0", "7", "3", "7", "0", "9", "5", "5", "1", "6", "1", "5">>, <<"-", "1", "8", "4", "4", "6", "7", "4", "4", "0", "7", "3", "7", "0", "9", "5", "5", "1", "5", "3", "6">>,
     <<"1", "8", "4", "4", "6", "7", "4", "4", "0", "7", "3", "7", "0", "9", "5", "5", "1", "6", "9", "6">>}
EnvProtocols == {EmptyS, JobServiceProtocolHTTPS}
EnvLoggers == {EmptyS, LogDir}
Envs ==
    {[JOB_SERVICE_PROTOCOL |-> prot, JOB_SERVICE_PORT |-> p,
      JOB_SERVICE_HTTPS_CERT |-> IF prot = EmptyS THEN EmptyS ELSE CertPath,
      JOB_SERVICE_HTTPS_KEY |-> IF prot = EmptyS THEN EmptyS ELSE KeyPath,
      JOB_SERVICE_POOL_BACKEND |-> EmptyS, JOB_SERVICE_POOL_WORKERS |-> EmptyS,
      JOB_SERVICE_POOL_REDIS_URL |-> EmptyS, JOB_SERVICE_POOL_REDIS_NAMESPACE |-> EmptyS,
      JOB_SERVICE_LOGGER_BASE_PATH |-> lp, JOB_SERVICE_LOGGER_LEVEL |-> EmptyS,
      JOB_SERVICE_LOGGER_ARCHIVE_PERIOD |-> IF lp = EmptyS THEN EmptyS ELSE <<"7">>] :
        prot \in EnvProtocols, p \in EnvPorts, lp \in EnvLoggers}
    \cup {[JOB_SERVICE_PROTOCOL |-> EmptyS, JOB_SERVICE_PORT |-> EmptyS,
           JOB_SERVICE_HTTPS_CERT |-> EmptyS, JOB_SERVICE_HTTPS_KEY |-> EmptyS,
           JOB_SERVICE_POOL_BACKEND |-> EmptyS, JOB_SERVICE_POOL_WORKERS |-> EmptyS,
           JOB_SERVICE_POOL_REDIS_URL |-> EmptyS, JOB_SERVICE_POOL_REDIS_NAMESPACE |-> EmptyS,
           JOB_SERVICE_LOGGER_BASE_PATH |-> EmptyS, JOB_SERVICE_LOGGER_LEVEL |-> l,
           JOB_SERVICE_LOGGER_ARCHIVE_PERIOD |-> EmptyS] : l \in LogLevels}
    \cup {[JOB_SERVICE_PROTOCOL |-> EmptyS, JOB_SERVICE_PORT |-> EmptyS,
           JOB_SERVICE_HTTPS_CERT |-> EmptyS, JOB_SERVICE_HTTPS_KEY |-> EmptyS,
           JOB_SERVICE_POOL_BACKEND |-> b, JOB_SERVICE_POOL_WORKERS |-> w,
           JOB_SERVICE_POOL_REDIS_URL |-> u, JOB_SERVICE_POOL_REDIS_NAMESPACE |-> n,
           JOB_SERVICE_LOGGER_BASE_PATH |-> EmptyS, JOB_SERVICE_LOGGER_LEVEL |-> EmptyS,
           JOB_SERVICE_LOGGER_ARCHIVE_PERIOD |-> EmptyS] :
              b \in {EmptyS, JobServicePoolBackendRedis}, w \in {EmptyS, <<"4">>},
              u \in RedisAddresses, n \in {EmptyS, <<"e", "n">>}}

NoFile == [readErr |-> TRUE, typeErr |-> FALSE, doc |-> GoodDoc]
NoEnv == CHOOSE e \in Envs : \A k \in DOMAIN e : e[k] = EmptyS

\* main loads the configuration from the file given with -c and from the
\* environment
LoadCall ==
    /\ cfgLoads = 0
    /\ \E file \in YamlFiles, env \in Envs :
         LET r == Load(cfg, ConfigPath, TRUE, file, env) IN
         /\ cfg' = r.c
         /\ cfgRet' = r.err
         /\ cfgFile' = file
         /\ cfgEnv' = env
    /\ cfgLoads' = cfgLoads + 1
    /\ UNCHANGED <<ctlVars, bootVars, ctxVars>>

\* Load is called again on the same struct with the same file and environment
ReloadCall ==
    /\ cfgLoads > 0
    /\ cfgLoads < MaxLoads
    /\ LET r == Load(cfg, ConfigPath, TRUE, cfgFile, cfgEnv) IN
         /\ cfg' = r.c
         /\ cfgRet' = r.err
    /\ cfgLoads' = cfgLoads + 1
    /\ UNCHANGED <<cfgFile, cfgEnv, ctlVars, bootVars, ctxVars>>

CfgInit ==
    /\ cfg = DefaultConfig
    /\ cfgFile = NoFile
    /\ cfgEnv = NoEnv
    /\ cfgRet = NoErr
    /\ cfgLoads = 0

NextConfig ==
    \/ LoadCall
    \/ ReloadCall

(***************************************************************************)
(* Claims about the configuration                                          *)
(***************************************************************************)
Loaded == cfgLoads = 1

\* the port as a number when it is below 65536, 65536 otherwise
PortNumber(port) ==
    IF port[2] = 0 /\ port[3] = 0 /\ port[4] = 0 THEN port[1] ELSE 65536

\* the decimal digits of a natural
RECURSIVE Decimal(_)
Decimal(n) ==
    IF n < 10 THEN <<DigitChars[n + 1]>>
    ELSE Append(Decimal(n \div 10), DigitChars[(n % 10) + 1])

RECURSIVE StripZeros(_)
StripZeros(s) ==
    IF Len(s) > 1 /\ Head(s) = "0" THEN StripZeros(Tail(s)) ELSE s

\* the environment names the natural n: decimal digits, possibly after "+"
\* and zeros
EnvNames(p, n) ==
    LET ds == IF p # << >> /\ Head(p) = "+" THEN Tail(p) ELSE p
    IN  /\ ds # << >>
        /\ \A i \in 1..Len(ds) : ds[i] \in Digits
        /\ StripZeros(ds) = Decimal(n)

\* the environment names a negative integer of at most 18 digits
EnvNegative(p) ==
    /\ Len(p) \in 2..19
    /\ Head(p) = "-"
    /\ \A i \in 2..Len(p) : p[i] \in Digits
    /\ \E i \in 2..Len(p) : p[i] # "0"

\* the port the file gives: the zero value if it gives none
FilePort == IF cfgFile.doc.port.set THEN cfgFile.doc.port.v ELSE U64Zero

\* every setting but the port passes the validation
OtherSettingsValid == validate([cfg EXCEPT !.Port = U64(8080)]) = NoErr

\* the load got as far as the validation
Validated == cfgRet \notin {ErrReadFile, ErrUnmarshal}

\* C10: validation rejects port 0 and every port above 65535 and accepts a
\* port in 1..65535 when the other settings are valid, whether the port comes
\* from the YAML file or from JOB_SERVICE_PORT; an accepted port is the number
\* the environment variable names or, when the variable names none that is
\* taken, the port of the file, and a load whose variable holds a negative
\* integer is rejected, so a negative or out-of-range integer in the variable
\* never becomes an accepted port.
C10_Port ==
    (Loaded /\ Validated) =>
        /\ (PortNumber(cfg.Port) = 0 \/ PortNumber(cfg.Port) > 65535) => cfgRet # NoErr
        /\ (PortNumber(cfg.Port) \in 1..65535 /\ OtherSettingsValid) => cfgRet = NoErr
        /\ PortNumber(cfg.Port) \in 1..65535 => cfgRet # ErrPort
        /\ cfgRet = NoErr =>
               /\ PortNumber(cfg.Port) \in 1..65535
               /\ \/ EnvNames(cfgEnv.JOB_SERVICE_PORT, PortNumber(cfg.Port))
                  \/ cfg.Port = FilePort
        /\ EnvNegative(cfgEnv.JOB_SERVICE_PORT) => cfgRet # NoErr

\* a negative integer of the environment wrapped around to a port above
\* 65535 and the load was rejected for it, the file naming a good port
C10_Witness ==
    /\ Loaded
    /\ cfgEnv.JOB_SERVICE_PORT = <<"-", "8", "0">>
    /\ FilePort = U64(8080)
    /\ cfg.Port = <<65456, 65535, 65535, 65535>>
    /\ OtherSettingsValid
    /\ cfgRet = ErrPort

\* the five level names
ExactLevels == {<<"D", "E", "B", "U", "G">>, <<"I", "N", "F", "O">>, <<"W", "A", "R", "N", "I", "N", "G">>, <<"E", "R", "R", "O", "R">>, <<"F", "A", "T", "A", "L">>}

\* C11: a configuration is valid only when logger.level is exactly one of
\* DEBUG, INFO, WARNING, ERROR, FATAL; with any other level, the empty string
\* and fragments of the names included, Load returns a validation error.
C11_LevelExact ==
    (Loaded /\ cfgRet = NoErr) => cfg.LoggerConfig.LogLevel \in ExactLevels

\* the redis URL of the struct, empty if it has none
RedisURLOf(c) ==
    IF ~IsNil(c.PoolConfig) /\ ~IsNil(c.PoolConfig.RedisPoolCfg)
    THEN c.PoolConfig.RedisPoolCfg.RedisURL
    ELSE EmptyS

\* the address the load took: that of the environment if loadEnvs stored it,
\* else that of the file
FileHasRedisURL ==
    /\ cfgFile.doc.worker_pool.set
    /\ cfgFile.doc.worker_pool.v.redis_pool.set

\* C12: Load is idempotent: called again on the same struct with the same
\* file and environment it returns the same result and leaves the struct
\* as the first call left it, and the translation of the redis address puts
\* at most one "redis://" in front of the address it was given.
C12_Idempotent ==
    /\ [][ReloadCall => (cfg' = cfg /\ cfgRet' = cfgRet)]_vars
    /\ []((cfgLoads > 0 /\ Validated /\ FileHasRedisURL
            /\ IsEmptyStr(cfgEnv.JOB_SERVICE_POOL_REDIS_URL)
            /\ ~HasPrefix(cfgFile.doc.worker_pool.v.redis_pool.v.redis_url,
                          redisSchema \o redisSchema))
           => ~HasPrefix(RedisURLOf(cfg), redisSchema \o redisSchema))

\* the second load of a file whose redis address had no scheme: accepted
\* again, the address with the one scheme the first load put there
C12_Witness ==
    /\ cfgLoads = 2
    /\ cfgRet = NoErr
    /\ FileHasRedisURL
    /\ cfgFile.doc.worker_pool.v.redis_pool.v.redis_url = <<"r", ":", "6", "3", "7", "9">>
    /\ IsEmptyStr(cfgEnv.JOB_SERVICE_POOL_REDIS_URL)
    /\ RedisURLOf(cfg) = <<"r", "e", "d", "i", "s", ":", "/", "/", "r", ":", "6", "3", "7", "9">>

(***************************************************************************)
(* package api: the authentication of a request by the shared secret       *)
(***************************************************************************)
authHeader == "Authorization"
uiAuthSecret == "CORE_SECRET"

ErrNilRequest == "nil request"
ErrHeaderMissing == "header 'Authorization' missing"
ErrUnauthorized == "unauthorized"

\* http.Header.Get: the value of the header, empty if there is none
HeaderGet(header, key) == IF key \in DOMAIN header THEN header[key] ELSE EmptyS

\* config.GetUIAuthSecret
GetUIAuthSecret(env) == ReadEnv(env, uiAuthSecret)

\* DoAuth without the test for an empty header
DoAuthNoEmptyTest(req, env) ==
    IF IsNil(req) THEN ErrNilRequest
    ELSE LET secret == TrimSpace(HeaderGet(req.Header, authHeader))
             expectedSecret == GetUIAuthSecret(env)
         IN  IF secret # expectedSecret THEN ErrUnauthorized
             ELSE NoErr

\* SecretAuthenticator.DoAuth: the error returned, NoErr for nil
DoAuth(req, env) ==
    IF IsNil(req) THEN ErrNilRequest
    ELSE LET secret == TrimSpace(HeaderGet(req.Header, authHeader))
             expectedSecret == GetUIAuthSecret(env)
         IN  IF IsEmptyStr(secret) THEN ErrHeaderMissing
             ELSE IF secret # expectedSecret THEN ErrUnauthorized
             ELSE NoErr

\* Inputs: requests and the secret of the environment
AuthHeaderValues ==
    {<< >>,
     <<" ">>,
     <<"s">>,
     <<" ", "s", " ">>,
     <<"t">>,
     <<"H", " ", "s">>,
     <<"H", " ", "t">>,
     <<"H", " ", " ", "s">>,
     <<" ", "H", " ", "s", " ">>,
     <<"s", " ", "H">>,
     <<"H", " ", "s", " ", "x">>,
     <<"H">>,
     <<"B", " ", "s">>,
     <<"H", " ", "s", " ", "t">>,
     <<"H", "s">>,
     <<"s", " ", "s">>,
     <<"t", " ", "s">>,
     <<"H", " ", "H">>,
     <<"B", " ", "t">>,
     <<"x">>}
NoHeader == [k \in {} |-> EmptyS]
Requests ==
    {Nil, [isNil |-> FALSE, Header |-> NoHeader]}
    \cup {[isNil |-> FALSE, Header |-> (authHeader :> h)] : h \in AuthHeaderValues}
CoreSecrets == {<< >>, <<" ">>, <<"s">>, <<"t">>, <<"H", " ", "s">>, <<" ", "s">>, <<"s", " ">>}

\* The API server authenticates an incoming request
DoAuthCall ==
    /\ CtlIdle
    /\ \E req \in Requests, secret \in CoreSecrets :
         /\ ctlOp' = "DoAuth"
         /\ ctlReq' = req
         /\ ctlEnv' = secret
         /\ ctlRet' = [err |-> DoAuth(req, [CORE_SECRET |-> secret])]
    /\ ctlCalls' = << >>
    /\ UNCHANGED <<poolEnq, poolHooks, bootVars, ctxVars, cfgVars>>

NextAuth ==
    \/ DoAuthCall
    \/ Respond

(***************************************************************************)
(* Claims about the authentication                                         *)
(***************************************************************************)
\* the request carries "Authorization: <scheme> <secret>" with that secret
HasSchemeAndSecret(req, secret) ==
    /\ ~IsNil(req)
    /\ authHeader \in DOMAIN req.Header
    /\ Len(Fields(req.Header[authHeader])) = 2
    /\ Fields(req.Header[authHeader])[2] = secret

\* C13: a request is authorised exactly when it carries a header of the form
\* "Authorization: <scheme> <secret>" whose secret equals the value of
\* CORE_SECRET; a nil request, a missing or blank header and a different
\* secret are rejected.
C13_AuthExact ==
    ctlOp = "DoAuth" =>
        /\ (ctlRet.err = NoErr) <=> HasSchemeAndSecret(ctlReq, ctlEnv)
        /\ IsNil(ctlReq) => ctlRet.err # NoErr
        /\ (~IsNil(ctlReq) /\ IsEmptyStr(HeaderGet(ctlReq.Header, authHeader)))
               => ctlRet.err # NoErr

\* C21: with CORE_SECRET unset or empty DoAuth authorises no request: a nil
\* request is rejected as such, a request whose trimmed Authorization header
\* is empty is rejected as "header missing" (whatever the secret is, so
\* before any comparison with it), and every other request as "unauthorized".
TrimmedHeader(req) == TrimSpace(HeaderGet(req.Header, authHeader))
C21_EmptySecretRejectsAll ==
    ctlOp = "DoAuth" =>
        /\ (~IsNil(ctlReq) /\ IsEmptyStr(TrimmedHeader(ctlReq))) =>
               ctlRet.err = ErrHeaderMissing
        /\ ctlEnv = EmptyS =>
               /\ ctlRet.err # NoErr
               /\ IsNil(ctlReq) => ctlRet.err = ErrNilRequest
               /\ (~IsNil(ctlReq) /\ ~IsEmptyStr(TrimmedHeader(ctlReq))) =>
                      ctlRet.err = ErrUnauthorized
C21_Witness ==
    /\ ctlOp = "DoAuth" /\ ctlEnv = EmptyS
    /\ ~IsNil(ctlReq) /\ ctlReq.Header = (authHeader :> <<" ">>)
    /\ ctlRet.err = ErrHeaderMissing

(***************************************************************************)
(* Specifications                                                          *)
(***************************************************************************)
Init == CtlInit /\ BootInit /\ CtxInit /\ CfgInit

\* The controller serving requests
SpecController == Init /\ [][NextController]_vars

\* main and LoadAndRun. The Go scheduler runs every goroutine that can take a
\* step, and the 10 s timer expires if its goroutine is still waiting; nothing
\* makes a worker finish, a signal arrive or a component report an error.
SpecBootstrap ==
    /\ Init /\ [][NextBootstrap]_vars
    /\ WF_vars(MainStep)
    /\ WF_vars(TimerStep)

\* The pool building job contexts from the template and jobs using them
SpecContext == Init /\ [][NextContext]_vars

\* main loading the configuration
SpecConfig == Init /\ [][NextConfig]_vars

\* The API server authenticating requests
SpecAuth == Init /\ [][NextAuth]_vars

====
